---- MODULE Spec2Model ----
(***************************************************************************)
(* CUSS2 client engine: the Connection (request/response correlation over  *)
(* one socket), the Cuss2 session controller (application state, sync      *)
(* policy) and the Component model (readiness, enabled flag, call          *)
(* accounting, watchdog poller).                                           *)
(*                                                                         *)
(* JavaScript runs one macrotask at a time and drains every microtask      *)
(* before the next one: an action of this module is one macrotask (an      *)
(* inbound frame, a socket close, a timer, a call made by the embedding    *)
(* application) together with every promise continuation it releases.      *)
(* The state is passed through the operators as a record S whose fields    *)
(* are the variables; an action computes the record after the macrotask    *)
(* and assigns it to the variables.                                        *)
(***************************************************************************)
EXTENDS Integers, Sequences, FiniteSets, TLC

\* ---- bounds ----
MaxInFlight == 2
MaxHandlers == 1
MaxAttempts == 2
MaxTokens == 2

\* ---- program constants ----
pollingInterval == 10000
NormalClosure == 1000
Unauthorized == 401

None == "NONE"
CloseEv == 0

Ids == 1..MaxInFlight

AppStates == {"STOPPED", "INITIALIZE", "UNAVAILABLE", "AVAILABLE", "ACTIVE",
              "SUSPENDED", "DISABLED", "RELOAD"}

criticalErrors ==
  {"CANCELLED", "WRONGAPPLICATIONSTATE", "OUTOFSEQUENCE", "TIMEOUT",
   "SESSIONTIMEOUT", "KILLTIMEOUT", "SOFTWAREERROR", "CRITICALSOFTWAREERROR",
   "FORMATERROR", "LENGTHERROR", "DATAMISSING", "THRESHOLDERROR",
   "THRESHOLDUSAGE", "HARDWAREERROR", "NOTREACHABLE", "NOTRESPONDING",
   "BAGGAGEFULL", "BAGGAGEUNDETECTED", "BAGGAGEOVERSIZED",
   "BAGGAGETOOMANYBAGS", "BAGGAGEUNEXPECTEDBAG", "BAGGAGETOOHIGH",
   "BAGGAGETOOLONG", "BAGGAGETOOFLAT", "BAGGAGETOOSHORT",
   "BAGGAGEINVALIDDATA", "BAGGAGEWEIGHTOUTOFRANGE", "BAGGAGEJAMMED",
   "BAGGAGEEMERGENCYSTOP", "BAGGAGERESTLESS", "BAGGAGETRANSPORTBUSY",
   "BAGGAGEMISTRACKED", "BAGGAGEUNEXPECTEDCHANGE", "BAGGAGEINTERFERENCEUSER",
   "BAGGAGEINTRUSIONSAFETY", "BAGGAGENOTCONVEYABLE", "BAGGAGEIRREGULARBAG",
   "BAGGAGEVOLUMENOTDETERMINABLE", "BAGGAGEOVERFLOWTUB"}

\* result codes the sources use that criticalErrors does not list
OtherCodes == {"OK", "MEDIAPRESENT", "DATAPRESENT"}

MessageCodes == criticalErrors \cup OtherCodes

\* the codes carried by the frames that target a component: in the runs of
\* the component actions, and in the runs of the session controller
ComponentCodes == {"OK", "OUTOFSEQUENCE", "HARDWAREERROR"}
SessionCodes == {"OK"}

\* the application states the platform reports in the frames
ReportedStates == {"INITIALIZE", "UNAVAILABLE", "AVAILABLE", "ACTIVE"}

isNonCriticalWrong(messageCode) == messageCode = "OK"

isNonCritical(messageCode) == ~ \E s \in criticalErrors : s = messageCode

VARIABLES
  state,               \* Cuss2._currentState.current
  previous,            \* Cuss2._currentState.previous, recorded where a property reads it (the library never reads it)
  pendingStateChange,  \* Cuss2.pendingStateChange (None = undefined)
  online,              \* Cuss2._online
  componentState,      \* Component._componentState, per component
  status,              \* Component._status
  enabled,             \* Component.enabled
  pendingCalls,        \* Component.pendingCalls
  required,            \* Component.required
  poller,              \* Component._poller: "none", "timer" (armed), "query" (fired, query in flight)
  polls,               \* per component: the poll timers scheduled in the runtime, requireOK of the poller, whether it is a Dispenser
  calls,               \* sendAndGetResponse invocations awaiting their waitFor promise
  handlers,            \* _handleWebSocketMessage invocations suspended in await queryComponents()
  listeners,           \* the listeners waitFor registered on the Connection
  socket,              \* Connection._socket: "none" (undefined), "open", "closing" (close() was called on it) or "closed"
  sent,                \* frames written to the socket during the last macrotask
  sreq,                \* api.staterequest invocations of the last macrotask
  policyLog,           \* checkRequiredComponentsAndSyncState runs of the last macrotask
  settled,             \* sendAndGetResponse calls settled during the last macrotask
  done,                \* component actions (enable, disable, ...) settled during the last macrotask
  inbound,             \* the frame the last macrotask received, if it was an inbound frame
  guarded,             \* requestAvailable/Unavailable/ActiveState calls of the last macrotask
  emitted,             \* raw "message" events the controller emitted during the last macrotask
  watch,               \* the history variables this specification records
  wire,                \* the Connection's frame handling: the application's "error" listener, and what the last macrotask received, emitted and wrote
  url,                 \* the base URL a Connection was constructed with, Connection._baseURL, and how often it was normalised
  discovery,           \* Cuss2.components and the named component fields, and the instantiation runs so far
  conn,                \* Connection.connect and the token refresh of the Connection
  prn                  \* a printer with its feeder and its dispenser

\* the components that were instantiated, and the component registry in
\* Object.values order (the keys are the component identifiers, in ascending
\* order)
Comps == DOMAIN enabled
componentList == [i \in DOMAIN enabled |-> i]
NumComponents == Len(componentList)

session == <<state, previous, pendingStateChange, online, componentState, status,
             enabled, pendingCalls, required, poller, polls, calls, handlers,
             listeners, socket, sent, sreq, policyLog, settled, done, inbound,
             guarded, emitted, wire, discovery, url, watch>>

vars == <<session, conn, prn>>

NoFrame == [rid |-> 0, dir |-> None, appState |-> None, cid |-> 0,
            cstate |-> None, code |-> None]

\* what JSON.parse made of a received text.  json: whether the text parses;
\* ping, ackCode: the values of these members ("undefined" where the object
\* has none); body: the meta of the frame, NoFrame where it has none
NoRaw == [json |-> TRUE, ping |-> "undefined", ackCode |-> "undefined",
          body |-> NoFrame]

\* the state as a record; the logs of the previous macrotask are dropped.
\* componentList: the component list in the payload of the frame the
\* macrotask receives.
\* throws: whether this build's WebSocket.send throws on a socket that is not
\* open (Deno) or discards the data (browsers).  ovf: the macrotask needs more
\* simultaneous requests or suspended handlers than the bounds allow.
\* todo: the microtask queue, the promise continuations the macrotask has
\* released and not yet run.
Begin(throws) ==
  [state |-> state, previous |-> previous,
   pendingStateChange |-> pendingStateChange, online |-> online,
   componentState |-> componentState, status |-> status, enabled |-> enabled,
   pendingCalls |-> pendingCalls, required |-> required, poller |-> poller,
   polls |-> polls,
   calls |-> calls, handlers |-> handlers, listeners |-> listeners,
   socket |-> socket,
   sent |-> <<>>, sreq |-> {}, policyLog |-> {}, settled |-> <<>>,
   done |-> <<>>, inbound |-> NoFrame, guarded |-> {}, emitted |-> <<>>,
   wire |-> [wire EXCEPT !.op = "none", !.raw = NoRaw, !.events = <<>>,
                         !.uncaught = FALSE],
   discovery |-> discovery, componentList |-> {},
   throws |-> throws,
   ovf |-> FALSE, todo |-> <<>>]

\* what a send on the socket can do in the macrotask that begins: nothing but
\* write the frame while the socket is open
Throws == IF socket = "open" THEN {FALSE} ELSE BOOLEAN

\* a history variable is recorded only where a property reads it
Keep(name, log, none) == IF name \in watch THEN log ELSE none

\* the macrotask stays within the bounds
Fits(S) == ~S.ovf

Commit(S) ==
  /\ state' = S.state
  /\ previous' = Keep("previous", S.previous, previous)
  /\ pendingStateChange' = S.pendingStateChange
  /\ online' = S.online
  /\ componentState' = S.componentState
  /\ status' = S.status
  /\ enabled' = S.enabled
  /\ pendingCalls' = S.pendingCalls
  /\ required' = S.required
  /\ poller' = S.poller
  /\ polls' = S.polls
  /\ calls' = S.calls
  /\ handlers' = S.handlers
  /\ listeners' = S.listeners
  /\ socket' = S.socket
  /\ sent' = Keep("sent", S.sent, <<>>)
  /\ sreq' = Keep("sreq", S.sreq, {})
  /\ policyLog' = Keep("policyLog", S.policyLog, {})
  /\ settled' = Keep("settled", S.settled, <<>>)
  /\ done' = Keep("done", S.done, <<>>)
  /\ inbound' = Keep("inbound", S.inbound, NoFrame)
  /\ guarded' = Keep("guarded", S.guarded, {})
  /\ emitted' = Keep("emitted", S.emitted, <<>>)
  /\ wire' = Keep("wire", S.wire,
                  [S.wire EXCEPT !.op = "none", !.raw = NoRaw,
                                 !.events = <<>>, !.uncaught = FALSE])
  /\ discovery' = S.discovery
  /\ url' = url
  /\ watch' = watch
  /\ conn' = conn
  /\ prn' = prn

\* a Connection before Connection.connect is called.  pc: where connect
\* stands; sockets: the WebSocket objects created; waits: the backoff waits;
\* ws: the socket of the current open attempt; code: the code of the last
\* close event; attempts: the calls retry made of the open attempt;
\* refresher: _refresher, which is null, the identifier of a scheduled timer
\* ("armed") or of a timer that fired or was cleared ("dead"); timers: the
\* refresh timers scheduled in the runtime; refreshing: a refresh started by
\* the timer awaits the token endpoint; failed: a refresh threw; access_token:
\* the number of tokens received; closed: close() was called; status: the
\* HTTP status of the token endpoint's answer to connect.
NewConnection ==
  [pc |-> "new", error |-> None, sockets |-> 0, waits |-> 0, ws |-> "none",
   attempts |-> 0, retrying |-> FALSE, code |-> 0, refresher |-> "null",
   timers |-> 0, refreshing |-> FALSE, failed |-> FALSE, access_token |-> 0,
   expires_in |-> 0, closed |-> FALSE, status |-> 0]

Parts == {"printer", "feeder", "dispenser"}
NoEvent == [who |-> None, dir |-> None, code |-> None, cstate |-> None,
            seen |-> None]

\* a Printer after its constructor ran, with the Feeder and the Dispenser it
\* links.  cs, st, en, required: _componentState, _status, enabled and
\* required of the three;
\* frame: the component frame the controller handled last (seen: the
\* componentState Component.updateState was given); log: what that frame
\* emitted and called, in order.
NewPrinter ==
  [cs |-> [c \in Parts |-> "UNAVAILABLE"], st |-> [c \in Parts |-> "OK"],
   en |-> [c \in Parts |-> FALSE],
   required |-> [c \in Parts |-> FALSE], combinedReady |-> FALSE,
   combinedStatus |-> "OK", mediaPresent |-> FALSE, frame |-> NoEvent,
   log |-> <<>>]

\* URLs are sequences of characters: a letter, the slash and the question
\* mark, which are all _cleanBaseURL tells apart
Chars == {"h", "/", "?"}

MaxURL == 4

URLs == UNION {[1..n -> Chars] : n \in 0..MaxURL}

\* url.split("?")[0]
RECURSIVE beforeQuery(_)
beforeQuery(u) ==
  IF u = <<>> \/ Head(u) = "?" THEN <<>>
  ELSE <<Head(u)>> \o beforeQuery(Tail(u))

endsWith(u, ch) == u # <<>> /\ u[Len(u)] = ch

\* Connection._cleanBaseURL
cleanBaseURL(u) ==
  LET cleanURL == beforeQuery(u)
  IN IF endsWith(cleanURL, "/") THEN SubSeq(cleanURL, 1, Len(cleanURL) - 1)
     ELSE cleanURL

\* a Connection nobody listens to yet.  errorListener: the application
\* registered a listener of "error"; terminated: the runtime ended the
\* process; op: what the last macrotask was; raw: the text it received;
\* events: what it emitted and wrote to the socket, in order; uncaught: an
\* exception left socket.onmessage
NewWire ==
  [errorListener |-> FALSE, terminated |-> FALSE, op |-> "none",
   raw |-> NoRaw, events |-> <<>>, uncaught |-> FALSE]

\* Cuss2.components before discovery.  discovered: this.components is set;
\* components: the registry, the instance (numbered by the run that created
\* it) under every identifier; named: the named component fields; runs: the
\* instantiation runs of getComponents; returned: the list the last
\* getComponents call returned
Undiscovered ==
  [discovered |-> FALSE, components |-> [c \in {} |-> 0],
   named |-> [c \in {} |-> 0], runs |-> 0, returned |-> {}]

\* the session objects after construction.  dispensers: the components that
\* are instances of Dispenser; fleet: the identifiers of the components;
\* sock: Connection._socket; found: the
\* components discovered; baseURL: the base URL given to the Connection
Session(fleet, dispensers, sock, found, baseURL) ==
  /\ state = "STOPPED"
  /\ previous = "STOPPED"
  /\ pendingStateChange = None
  /\ online = FALSE
  /\ componentState = [c \in fleet |-> "UNAVAILABLE"]
  /\ status = [c \in fleet |-> "OK"]
  /\ enabled = [c \in fleet |-> FALSE]
  /\ pendingCalls = [c \in fleet |-> 0]
  /\ required = [c \in fleet |-> FALSE]
  /\ poller = [c \in fleet |-> "none"]
  /\ polls = [c \in fleet |-> [timers |-> 0, requireOK |-> FALSE,
                                 dispenser |-> c \in dispensers]]
  /\ calls = {}
  /\ handlers = {}
  /\ listeners = {}
  /\ socket = sock
  /\ sent = <<>>
  /\ sreq = {}
  /\ policyLog = {}
  /\ settled = <<>>
  /\ done = <<>>
  /\ inbound = NoFrame
  /\ guarded = {}
  /\ emitted = <<>>
  /\ wire = NewWire
  /\ discovery = found
  /\ url = [given |-> baseURL, baseURL |-> baseURL, cleaned |-> 0]
  /\ conn = NewConnection
  /\ prn = NewPrinter

\* Cuss2.components after the discovery Cuss2.connect runs
Discovered(fleet) ==
  [discovered |-> TRUE, components |-> [c \in fleet |-> 1],
   named |-> [c \in fleet |-> 1], runs |-> 1, returned |-> fleet]

\* the session after construction and component discovery, on an open socket
ConstructedWith(dispensers) ==
  Session({1}, dispensers, "open", Discovered({1}), <<>>)

Constructed == ConstructedWith({})

Init == Constructed /\ watch = {"sreq", "policyLog"}

InitConn == Constructed /\ watch = {"settled", "sent", "inbound"}

InitComp == Constructed /\ watch = {"done"}

\* ------------------------------------------------------------------------
\* Connection: waitFor / sendAndGetResponse
\* ------------------------------------------------------------------------
\* a promise is settled: its continuation is queued as a microtask
Defer(S, task) == [S EXCEPT !.todo = Append(@, task)]

Listener(ev, w, k) == [event |-> ev, wait |-> w, kind |-> k]

once(L, ev, w, k) == L \cup {Listener(ev, w, k)}

off(L, ev, w, k) == L \ {Listener(ev, w, k)}

InUse(S) == {c.id : c \in S.calls} \cup {l.wait : l \in S.listeners}

\* Build.applicationData: a request identifier no pending request carries
randomUUID(S) ==
  CHOOSE i \in Ids : /\ i \notin InUse(S)
                     /\ \A j \in Ids : j \notin InUse(S) => i <= j

Call(id, dir, cid, k, by, target, h) ==
  [id |-> id, dir |-> dir, cid |-> cid, k |-> k, by |-> by,
   target |-> target, h |-> h]

Resolved(msg) ==
  [how |-> "resolved", err |-> "none", messageCode |-> msg.code,
   rid |-> msg.rid]

Rejected(err) ==
  [how |-> "rejected", err |-> err, messageCode |-> None, rid |-> 0]

PlatformResponseError(msg) ==
  [how |-> "rejected", err |-> "PlatformResponseError",
   messageCode |-> msg.code, rid |-> msg.rid]

waitFor(S, id) ==
  [S EXCEPT !.listeners = once(once(@, id, id, "resolver"),
                               CloseEv, id, "catcher")]

\* sendAndGetResponse without the check of _socket
sendAndGetResponseAnySocket(S, dir, cid, k, by, target, h) ==
  IF Ids \subseteq InUse(S) THEN [S EXCEPT !.ovf = TRUE]
  ELSE
    LET id == randomUUID(S)
        c == Call(id, dir, cid, k, by, target, h)
        S1 == waitFor(S, id)
    IN IF S.socket = "open"
         THEN [S1 EXCEPT !.sent = Append(@, [rid |-> id, dir |-> dir,
                                             cid |-> cid, target |-> target]),
                         !.calls = @ \cup {c}]
       ELSE IF S.throws
         THEN Defer(S1, [t |-> "rejected", c |-> c,
                         out |-> Rejected("InvalidStateError")])
       ELSE [S1 EXCEPT !.calls = @ \cup {c}]

\* sendAndGetResponse up to its await: the waiter is registered, then the
\* frame is written; a send that throws rejects the promise of the call
sendAndGetResponse(S, dir, cid, k, by, target, h) ==
  IF Ids \subseteq InUse(S) THEN [S EXCEPT !.ovf = TRUE]
  ELSE
    LET id == randomUUID(S)
        c == Call(id, dir, cid, k, by, target, h)
        S1 == waitFor(S, id)
    IN IF S.socket = "none"
         THEN Defer(S, [t |-> "rejected", c |-> c,
                        out |-> Rejected("WebSocket is not connected")])
       ELSE IF S.socket = "open"
         THEN [S1 EXCEPT !.sent = Append(@, [rid |-> id, dir |-> dir,
                                             cid |-> cid, target |-> target]),
                         !.calls = @ \cup {c}]
       ELSE IF S.throws
         THEN Defer(S1, [t |-> "rejected", c |-> c,
                         out |-> Rejected("InvalidStateError")])
       ELSE [S1 EXCEPT !.calls = @ \cup {c}]

\* sendAndGetResponse after its await resolved with the response: what the
\* promise of the call is settled with
sendAndGetResponseThen(message) ==
  LET messageCode == message.code
  IN IF messageCode # None /\ isNonCritical(messageCode)
       THEN Resolved(message)
     ELSE PlatformResponseError(message)

\* ------------------------------------------------------------------------
\* Component: call accounting and the six actions
\* ------------------------------------------------------------------------
ready(S, c) == S.componentState[c] = "READY"

pending(S, c) == S.pendingCalls[c] > 0

decrement(S, c) == [S EXCEPT !.pendingCalls[c] = @ - 1]

call(S, c, dir, k, by, h) ==
  sendAndGetResponse([S EXCEPT !.pendingCalls[c] = @ + 1],
                     dir, c, k, by, None, h)

enable(S, c) == call(S, c, "PeripheralsUserpresentEnable", "enable", "plain", 0)

disable(S, c, by) ==
  call(S, c, "PeripheralsUserpresentDisable", "disable", by, 0)

cancel(S, c) == call(S, c, "PeripheralsCancel", "cancel", "plain", 0)

query(S, c, by, h) == call(S, c, "PeripheralsQuery", "query", by, h)

setup(S, c) ==
  sendAndGetResponse(S, "PeripheralsSetup", c, "setup", "plain", None, 0)

send(S, c) ==
  sendAndGetResponse(S, "PeripheralsSend", c, "send", "plain", None, 0)

\* Printer.printRaw up to the answer to its send
printRaw(S, c) ==
  sendAndGetResponse(S, "PeripheralsSend", c, "send", "printRaw", None, 0)

\* what tells one error from another: the code of a PlatformResponseError,
\* the kind of any other
ErrorName(out) ==
  IF out.err = "PlatformResponseError" THEN out.messageCode ELSE out.err

\* a rejection with the error of that name
Raised(name) ==
  [how |-> "rejected", err |-> name, messageCode |-> None, rid |-> 0]

\* a component action has settled: how, the error and the result code of the
\* underlying call, and what enabled was when the response reached the action
Done(S, op, c, out, how, was) ==
  [S EXCEPT !.done = Append(@, [op |-> op, cid |-> c, how |-> how,
                                err |-> out.err,
                                messageCode |-> out.messageCode,
                                was |-> was])]

enableThen(S, c, out) ==
  IF out.how = "resolved"
    THEN Done([S EXCEPT !.enabled[c] = TRUE], "enable", c, out, "resolved",
              S.enabled[c])
  ELSE Done(S, "enable", c, out, "rejected", S.enabled[c])

disableThenNoAbsorb(S, c, out) ==
  IF out.how = "resolved"
    THEN Done([S EXCEPT !.enabled[c] = FALSE], "disable", c, out, "resolved",
              S.enabled[c])
  ELSE Done(S, "disable", c, out, "rejected", S.enabled[c])

\* disable whose catch resolves with every error
disableThenAbsorbAll(S, c, out) ==
  Done([S EXCEPT !.enabled[c] = FALSE], "disable", c, out, "resolved",
       S.enabled[c])

disableThen(S, c, out) ==
  IF out.how = "resolved"
    THEN Done([S EXCEPT !.enabled[c] = FALSE], "disable", c, out, "resolved",
              S.enabled[c])
  ELSE IF out.messageCode = "OUTOFSEQUENCE"
    THEN Done([S EXCEPT !.enabled[c] = FALSE], "disable", c, out, "resolved",
              S.enabled[c])
  ELSE Done(S, "disable", c, out, "rejected", S.enabled[c])

\* ------------------------------------------------------------------------
\* Cuss2: state requests and the sync policy
\* ------------------------------------------------------------------------
\* an invocation of api.staterequest: whether pendingStateChange was set, and
\* whether the request was handed to sendAndGetResponse
Invoked(S, handed) ==
  [S EXCEPT !.sreq = @ \cup {[pending |-> S.pendingStateChange # None,
                              sent |-> handed]}]

staterequestUnguarded(S, st, by) ==
  sendAndGetResponse(
    [Invoked(S, TRUE) EXCEPT !.pendingStateChange = st],
    "PlatformApplicationsStaterequest", 0, "staterequest",
    IF by = "availInit" THEN by ELSE "plain", st, 0)

\* by: the caller that awaits the result, where one does ("availInit",
\* "reload")
staterequest(S, st, by) ==
  IF S.pendingStateChange # None
    THEN IF by \in {"availInit", "reload"}
           THEN Defer(Invoked(S, FALSE), [t |-> by])
         ELSE Invoked(S, FALSE)
  ELSE sendAndGetResponse(
    [Invoked(S, TRUE) EXCEPT !.pendingStateChange = st],
    "PlatformApplicationsStaterequest", 0, "staterequest",
    IF by \in {"availInit", "reload"} THEN by ELSE "plain", st, 0)

\* this.connection._socket?.close(): an open socket starts its closing
\* handshake, its onclose follows in a later macrotask
socketClose(S) ==
  [S EXCEPT !.socket = IF @ = "open" THEN "closing" ELSE @]

IndexOf(cid) == CHOOSE i \in DOMAIN componentList : componentList[i] = cid

\* componentList.forEach(async component => { if (component.enabled) await
\* component.disable() }): every disable is dispatched, none is awaited
RECURSIVE disableAll(_, _)
disableAll(S, i) ==
  IF i > NumComponents THEN S
  ELSE disableAll(IF S.enabled[componentList[i]]
                    THEN disable(S, componentList[i], "plain")
                  ELSE S,
                  i + 1)

\* a guarded request was called in state from: whether its guard let it
\* through to api.staterequest or made it return Promise.resolve(undefined),
\* and the frames it wrote before it returned
Guarded(S, op, from, okToChange, before) ==
  [S EXCEPT !.guarded = @ \cup
     {[op |-> op, from |-> from,
       result |-> IF okToChange THEN "staterequest" ELSE "undefined",
       frames |-> Len(S.sent) - before]}]

requestUnavailableState(S, by) ==
  LET okToChange == S.state \in {"INITIALIZE", "AVAILABLE", "ACTIVE"}
      S1 == IF okToChange /\ S.state = "ACTIVE" THEN disableAll(S, 1) ELSE S
  IN Guarded(IF okToChange THEN staterequest(S1, "UNAVAILABLE", by) ELSE S1,
             "requestUnavailableState", S.state, okToChange, Len(S.sent))

\* the loop of requestAvailableState that awaits no disable
RECURSIVE availLoopEager(_, _)
availLoopEager(S, i) ==
  IF i > NumComponents THEN staterequest(S, "AVAILABLE", "app")
  ELSE availLoopEager(IF S.enabled[componentList[i]]
                        THEN disable(S, componentList[i], "plain")
                      ELSE S,
                      i + 1)

\* the for-await loop of requestAvailableState from component i on; okToChange
\* was evaluated before the loop
RECURSIVE availLoop(_, _)
availLoop(S, i) ==
  IF i > NumComponents THEN staterequest(S, "AVAILABLE", "app")
  ELSE IF S.enabled[componentList[i]] THEN disable(S, componentList[i], "seq")
  ELSE availLoop(S, i + 1)

\* requestAvailableState after the INITIALIZE detour
requestAvailableState2(S, by) ==
  LET okToChange == S.state \in {"UNAVAILABLE", "ACTIVE"}
  IN Guarded(IF okToChange /\ S.state = "ACTIVE" THEN availLoop(S, 1)
             ELSE IF okToChange THEN staterequest(S, "AVAILABLE", by)
             ELSE S,
             "requestAvailableState", S.state, okToChange, Len(S.sent))

requestAvailableState(S, by) ==
  IF S.state = "INITIALIZE" THEN requestUnavailableState(S, "availInit")
  ELSE requestAvailableState2(S, by)

requestStoppedState(S) ==
  Guarded(staterequest(S, "STOPPED", "app"), "requestStoppedState", S.state,
          TRUE, Len(S.sent))

\* requestReload up to its await; the close of the socket follows the await
\* (Task, Continue)
requestReload(S) ==
  LET okToChange == S.state \in {"UNAVAILABLE", "AVAILABLE", "ACTIVE"}
  IN IF okToChange THEN staterequest(S, "RELOAD", "reload") ELSE S

requestActiveStateUnguarded(S) ==
  Guarded(staterequest(S, "ACTIVE", "app"), "requestActiveState", S.state,
          S.state \in {"AVAILABLE", "ACTIVE"}, Len(S.sent))

requestActiveState(S) ==
  LET okToChange == S.state \in {"AVAILABLE", "ACTIVE"}
  IN Guarded(IF okToChange THEN staterequest(S, "ACTIVE", "app") ELSE S,
             "requestActiveState", S.state, okToChange, Len(S.sent))

unavailableComponents(S) == {c \in Comps : ~ready(S, c)}

unavailableRequiredComponents(S) ==
  {c \in unavailableComponents(S) : S.required[c]}

\* from: what runs the policy: the applicationOnline setter ("setter"), the
\* component part of the message handler ("component"), or the handler of a
\* change to UNAVAILABLE ("ACTIVE" when it left ACTIVE, "handler" otherwise)
Policy(S, from, skipped, what) ==
  [S EXCEPT !.policyLog = @ \cup
     {[from |-> from, skipped |-> skipped, call |-> what,
       allReady |-> unavailableRequiredComponents(S) = {}]}]

checkAlwaysAvailable(S, from) ==
  IF S.pendingStateChange # None THEN Policy(S, from, TRUE, "none")
  ELSE IF S.online
    THEN IF S.state = "UNAVAILABLE"
           THEN requestAvailableState(
                  Policy(S, from, FALSE, "requestAvailableState"), "policy")
         ELSE requestUnavailableState(
                Policy(S, from, FALSE, "requestUnavailableState"), "policy")
  ELSE requestUnavailableState(
         Policy(S, from, FALSE, "requestUnavailableState"), "policy")

checkRequiredComponentsAndSyncState(S, from) ==
  IF S.pendingStateChange # None THEN Policy(S, from, TRUE, "none")
  ELSE IF S.online
    THEN IF unavailableRequiredComponents(S) = {}
           THEN IF S.state = "UNAVAILABLE"
                  THEN requestAvailableState(
                         Policy(S, from, FALSE, "requestAvailableState"), "policy")
                ELSE Policy(S, from, FALSE, "none")
         ELSE requestUnavailableState(
                Policy(S, from, FALSE, "requestUnavailableState"), "policy")
  ELSE requestUnavailableState(
         Policy(S, from, FALSE, "requestUnavailableState"), "policy")


\* ------------------------------------------------------------------------
\* Component: state machine and watchdog poller
\* ------------------------------------------------------------------------
\* poll that schedules no timer
pollIdle(S, c) == [S EXCEPT !.poller[c] = "none"]

\* poll that stops at ready whatever the status
pollAnyStatus(S, c) ==
  IF ready(S, c) THEN [S EXCEPT !.poller[c] = "none"]
  ELSE [S EXCEPT !.poller[c] = "timer", !.polls[c].timers = @ + 1]

poll(S, c) ==
  IF ready(S, c) /\ (~S.polls[c].requireOK \/ S.status[c] = "OK")
    THEN [S EXCEPT !.poller[c] = "none"]
  ELSE [S EXCEPT !.poller[c] = "timer", !.polls[c].timers = @ + 1]

\* pollUntilReady without the return while a poller is set
pollUntilReadyAgain(S, c, requireOK) ==
  poll([S EXCEPT !.polls[c].requireOK = requireOK], c)

pollUntilReady(S, c, requireOK) ==
  IF S.poller[c] # "none" THEN S
  ELSE poll([S EXCEPT !.polls[c].requireOK = requireOK], c)

\* emit("statusChange", status): the listener a Dispenser registered
statusChange(S, c, st) ==
  IF S.polls[c].dispenser /\ st = "MEDIAPRESENT"
    THEN pollUntilReady(S, c, TRUE)
  ELSE S

stateIsDifferent(S, c, msg) ==
  S.status[c] # msg.code \/ S.componentState[c] # msg.cstate

updateState(S, c, msg) ==
  LET S1 == IF msg.cstate # S.componentState[c]
              THEN [S EXCEPT !.componentState[c] =
                               IF msg.cstate = None THEN "UNAVAILABLE"
                               ELSE msg.cstate,
                             !.enabled[c] =
                               IF msg.cstate # "READY" THEN FALSE ELSE @]
            ELSE S
      S2 == IF ~ready(S1, c) /\ S1.required[c] /\ S1.poller[c] = "none"
               /\ pollingInterval > 0
              THEN pollUntilReady(S1, c, FALSE)
            ELSE S1
  IN IF S2.status[c] # msg.code
       THEN statusChange([S2 EXCEPT !.status[c] = msg.code], c, msg.code)
     ELSE S2

\* the components' listener of the controller's "deactivated" event
deactivated(S) == [S EXCEPT !.enabled = [c \in Comps |-> FALSE]]

\* ------------------------------------------------------------------------
\* Cuss2: inbound message routing
\* ------------------------------------------------------------------------
\* _handleWebSocketMessage from the component lookup on
componentPart(S, msg) ==
  LET unsolicited == msg.dir = None
  IN IF msg.cid \in Comps /\ stateIsDifferent(S, msg.cid, msg)
       THEN LET S1 == updateState(S, msg.cid, msg)
            IN IF S1.online /\ (unsolicited \/ msg.dir = "PeripheralsQuery")
                 THEN checkRequiredComponentsAndSyncState(S1, "component")
               ELSE S1
     ELSE S

\* super.emit("message", platformData), the last statement of
\* _handleWebSocketMessage.  own: the invocation that emits is the one the
\* current macrotask started (it was never suspended).
emitMessage(S, own) == [S EXCEPT !.emitted = Append(@, [own |-> own])]

\* _handleWebSocketMessage after await queryComponents()
resumeHandler(S, hr) ==
  LET S0 == [S EXCEPT !.handlers = @ \ {hr}]
      S1 == IF S0.online
              THEN checkRequiredComponentsAndSyncState(
                     S0, IF hr.wasActive THEN "ACTIVE" ELSE "handler")
            ELSE S0
      S2 == IF hr.wasActive THEN deactivated(S1) ELSE S1
  IN emitMessage(componentPart(S2, hr.f), FALSE)

Waiting(S, h) == {c \in S.calls : c.by = "handler" /\ c.h = h}

\* Promise.all over the queries of queryComponents: the handler resumes when
\* the last of them has settled
queryComponentsThen(S, h) ==
  IF Waiting(S, h) = {} THEN Defer(S, [t |-> "resume", h |-> h]) ELSE S

RECURSIVE queryComponents(_, _, _)
queryComponents(S, i, h) ==
  IF i > NumComponents THEN S
  ELSE queryComponents(query(S, componentList[i], "handler", h), i + 1, h)

\* what a suspended _handleWebSocketMessage still reads of its frame: the
\* component identifier, state and code, and whether it has a directive (of
\* prevState it still reads whether it is ACTIVE)
Pending(msg) ==
  IF msg.cid \in Comps THEN [msg EXCEPT !.rid = 0, !.appState = None]
  ELSE NoFrame

\* _handleWebSocketMessage up to its first suspension
\* this.emit(ev, ...) and socket.send of the pong, as the macrotask's record
emit(S, ev) == [S EXCEPT !.wire.events = Append(@, ev)]

\* a state change that emits no event
stateChangeSilent(S, prevState, currentState) ==
  [S EXCEPT !.state = currentState, !.previous = prevState]

\* this._currentState = new StateChange(prevState, currentState);
\* super.emit("stateChange", this._currentState)
stateChange(S, prevState, currentState) ==
  emit([S EXCEPT !.state = currentState, !.previous = prevState],
       "stateChange")

handleWebSocketMessage(S, msg) ==
  LET currentState == msg.appState
  IN IF currentState # S.state
       THEN LET prev == S.state
                S1 == stateChange(S, prev, currentState)
            IN IF currentState = "UNAVAILABLE"
                 THEN IF \A h \in 1..MaxHandlers :
                           \E hr \in S1.handlers : hr.h = h
                        THEN [S1 EXCEPT !.ovf = TRUE]
                      ELSE LET h == CHOOSE i \in 1..MaxHandlers :
                                      ~ \E hr \in S1.handlers : hr.h = i
                           IN queryComponents(
                                [S1 EXCEPT !.handlers = @ \cup
                                   {[h |-> h, f |-> Pending(msg),
                                     wasActive |-> prev = "ACTIVE"]}],
                                1, h)
               ELSE emitMessage(
                      componentPart(
                        IF prev = "ACTIVE" THEN deactivated(S1) ELSE S1, msg),
                      TRUE)
     ELSE emitMessage(componentPart(S, msg), TRUE)

\* ------------------------------------------------------------------------
\* promise continuations of a settled sendAndGetResponse call
\* ------------------------------------------------------------------------
\* the instantiation of the components of componentList
instantiate(S) ==
  [S EXCEPT !.discovery.discovered = TRUE,
            !.discovery.components =
               [c \in S.componentList |-> S.discovery.runs + 1],
            !.discovery.named =
               [c \in S.componentList |-> S.discovery.runs + 1],
            !.discovery.runs = @ + 1]

\* api.getComponents that instantiates whenever it is answered
getComponentsThenAgain(S, out) ==
  IF out.how # "resolved" THEN Done(S, "getComponents", 0, out, "rejected", FALSE)
  ELSE Done(instantiate([S EXCEPT !.discovery.returned = S.componentList]),
            "getComponents", 0, out, "resolved", FALSE)

\* api.getComponents after its await
getComponentsThen(S, out) ==
  IF out.how # "resolved" THEN Done(S, "getComponents", 0, out, "rejected", FALSE)
  ELSE LET S1 == [S EXCEPT !.discovery.returned = S.componentList]
       IN Done(IF S1.discovery.discovered THEN S1 ELSE instantiate(S1),
               "getComponents", 0, out, "resolved", FALSE)

\* api.staterequest that clears pendingStateChange after the try block only
staterequestNoFinally(S, out) ==
  IF out.how = "resolved" THEN [S EXCEPT !.pendingStateChange = None] ELSE S

\* api.staterequest: finally { this.pendingStateChange = undefined }
staterequestFinally(S, out) == [S EXCEPT !.pendingStateChange = None]

\* printRaw: .catch(e => this.cancel()...) of the send; e is kept in the
\* call record of the cancel (target), as the closure keeps it
printRawThen(S, c, out) ==
  IF out.how = "resolved"
    THEN Done(S, "printRaw", c, out, "resolved", S.enabled[c])
  ELSE sendAndGetResponse([S EXCEPT !.pendingCalls[c] = @ + 1],
                          "PeripheralsCancel", c, "cancel", "printRaw",
                          ErrorName(out), 0)

\* printRaw: this.cancel().then(() => { throw e; }): the then runs when the
\* cancel resolved; a rejected cancel passes its own error on
printRawRethrow(S, c, e, out) ==
  Done(S, "printRaw", c,
       Raised(IF out.how = "resolved" THEN e ELSE ErrorName(out)),
       "rejected", S.enabled[c])

Continue(S, c, out) ==
  LET S0 == [S EXCEPT !.settled = Append(@, [id |-> c.id, k |-> c.k,
                                             out |-> out])]
  IN CASE c.k = "enable" -> enableThen(decrement(S0, c.cid), c.cid, out)
       [] c.k = "disable" ->
            LET S1 == disableThen(decrement(S0, c.cid), c.cid, out)
            IN IF c.by = "seq" /\ S1.done[Len(S1.done)].how = "resolved"
                 THEN availLoop(S1, IndexOf(c.cid) + 1)
               ELSE S1
       [] c.k = "cancel" ->
            LET S1 == Done(decrement(S0, c.cid), "cancel", c.cid, out,
                           out.how, S0.enabled[c.cid])
            IN IF c.by = "printRaw"
                 THEN printRawRethrow(S1, c.cid, c.target, out)
               ELSE S1
       [] c.k = "query" ->
            LET S1 == Done(decrement(S0, c.cid), "query", c.cid, out, out.how,
                           S0.enabled[c.cid])
            IN CASE c.by = "poll" -> poll(S1, c.cid)
                 [] c.by = "handler" -> queryComponentsThen(S1, c.h)
                 [] OTHER -> S1
       [] c.k \in {"setup", "send"} ->
            LET S1 == Done(S0, c.k, c.cid, out, out.how, S0.enabled[c.cid])
            IN IF c.by = "printRaw" THEN printRawThen(S1, c.cid, out) ELSE S1
       [] c.k = "components" -> getComponentsThen(S0, out)
       [] c.k = "staterequest" ->
            LET S1 == staterequestFinally(S0, out)
            IN IF c.by = "availInit" /\ out.how = "resolved"
                 THEN requestAvailableState2(S1, "app")
               ELSE IF c.by = "reload" /\ out.how = "resolved"
                 THEN socketClose(S1)
               ELSE S1
       [] OTHER -> S0

\* ------------------------------------------------------------------------
\* Connection: event emission
\* ------------------------------------------------------------------------
\* one listener registered by waitFor is run: the once-wrapper removes it and
\* it removes its sibling (the promise is settled by the caller)
runListenerLeak(S, l) ==
  [S EXCEPT !.listeners = off(@, l.event, l.wait, l.kind)]

runListener(S, l) ==
  LET sib == IF l.kind = "resolver" THEN Listener(CloseEv, l.wait, "catcher")
             ELSE Listener(l.wait, l.wait, "resolver")
  IN [S EXCEPT !.listeners = off(off(@, l.event, l.wait, l.kind),
                                 sib.event, sib.wait, sib.kind)]

First(ls) == CHOOSE l \in ls : \A m \in ls : l.wait <= m.wait

RECURSIVE runListeners(_, _)
runListeners(S, ls) ==
  IF ls = {} THEN S
  ELSE runListeners(runListener(S, First(ls)), ls \ {First(ls)})

\* the listeners among ls whose promise is still pending
Settling(S, ls) == {l \in ls : \E c \in S.calls : c.id = l.wait}

CallOf(S, w) == CHOOSE c \in S.calls : c.id = w

\* resolve(e) of the resolvers among ls
RECURSIVE resolveAll(_, _, _)
resolveAll(S, ls, msg) ==
  IF ls = {} THEN S
  ELSE resolveAll(Defer(S, [t |-> "response", c |-> CallOf(S, First(ls).wait),
                            out |-> sendAndGetResponseThen(msg)]),
                  ls \ {First(ls)}, msg)

emitRequestIDAny(S, msg) ==
  LET ls == {l \in S.listeners : l.kind = "resolver"}
  IN resolveAll(runListeners(S, ls), Settling(S, ls), msg)

\* this.emit(String(requestID), platformData)
emitRequestID(S, msg) ==
  LET ls == {l \in S.listeners : l.event = msg.rid}
  IN resolveAll(runListeners(S, ls), Settling(S, ls), msg)

\* reject(e) of the catchers among ls
RECURSIVE rejectAll(_, _)
rejectAll(S, ls) ==
  IF ls = {} THEN S
  ELSE rejectAll(Defer(S, [t |-> "rejected", c |-> CallOf(S, First(ls).wait),
                           out |-> Rejected("CloseEvent")]),
                 ls \ {First(ls)})

\* socket.onclose: this.emit("close", e).  Every catcher runs; the promise
\* chains of the rejected calls follow as microtasks.
emitClose(S) ==
  LET ls == {l \in S.listeners : l.event = CloseEv}
  IN rejectAll(runListeners(S, ls), Settling(S, ls))

\* one microtask: the continuation of a settled call, of an await on an
\* already settled promise, or of the Promise.all of a suspended handler
Task(S, task) ==
  CASE task.t \in {"response", "rejected"} ->
         Continue([S EXCEPT !.calls = @ \ {task.c}], task.c, task.out)
    [] task.t = "availInit" -> requestAvailableState2(S, "app")
    [] task.t = "reload" -> socketClose(S)
    [] task.t = "resume" ->
         resumeHandler(S, CHOOSE hr \in S.handlers : hr.h = task.h)

\* the microtask queue is drained before the macrotask ends
RECURSIVE Drain(_)
Drain(S) ==
  IF S.todo = <<>> \/ S.ovf THEN S
  ELSE Drain(Task([S EXCEPT !.todo = Tail(@)], Head(S.todo)))

\* socket.onmessage for a frame that is neither a ping nor an ack
onmessage(S, msg) ==
  LET S1 == handleWebSocketMessage(
              emit([S EXCEPT !.inbound = msg], "message"), msg)
  IN IF msg.rid # 0 THEN emitRequestID(emit(S1, "requestID"), msg) ELSE S1

\* whether if (v) takes the branch, for a member v of the parsed object
truthy(v) == v \notin {"undefined", "null", "false", "0", ""}

\* this.emit("error", error): an EventEmitter nobody listens to for "error"
\* throws the error instead.  The exception leaves socket.onmessage; the
\* runtime reports it and goes on (browsers) or ends the process (fatal)
emitError(S, fatal) ==
  IF S.wire.errorListener THEN emit(S, "error")
  ELSE [emit(S, "error") EXCEPT !.wire.uncaught = TRUE,
                                !.wire.terminated = fatal,
                                !.socket = IF fatal THEN "closed" ELSE @]

\* socket.onmessage
socketOnMessage(S, raw, fatal) ==
  LET S0 == [S EXCEPT !.wire.op = "frame", !.wire.raw = raw]
  IN IF ~raw.json THEN emitError(S0, fatal)
     ELSE IF truthy(raw.ping) THEN emit(emit(S0, "pong"), "ping")
     ELSE IF truthy(raw.ackCode) THEN emit(S0, "ack")
     ELSE IF raw.body = NoFrame THEN emit(S0, "message")
     ELSE onmessage(S0, raw.body)

\* ------------------------------------------------------------------------
\* Actions: one macrotask each
\* ------------------------------------------------------------------------
Response(c, st, cs, code) ==
  [rid |-> c.id, dir |-> c.dir, appState |-> st, cid |-> c.cid,
   cstate |-> cs, code |-> code]

\* the frames the platform can answer request c with.  Every frame carries the
\* platform's application state: the answer to a state request carries the
\* requested state when it is granted and the unchanged state when refused;
\* the answer to a component directive carries the unchanged state.
Granted(c, codes) ==
  IF c.k = "staterequest" THEN {Response(c, c.target, None, "OK")}
  ELSE {Response(c, state, cs, code) :
          cs \in {"READY", "UNAVAILABLE"}, code \in codes}

Refused(c) ==
  IF c.k = "staterequest"
    THEN {Response(c, state, None, "WRONGAPPLICATIONSTATE")}
  ELSE {}

Responses(c, codes) == Granted(c, codes) \cup Refused(c)

\* the platform answers an outstanding request
DeliverResponse ==
  /\ socket = "open"
  /\ \E c \in calls : \E f \in Responses(c, SessionCodes) :
       \E S \in {Drain(onmessage(Begin(FALSE), f))} :
         Fits(S) /\ Commit(S)

\* the platform answers an outstanding request and refuses no state request
Answer ==
  /\ socket = "open"
  /\ \E c \in calls : \E f \in Granted(c, SessionCodes) :
       \E S \in {Drain(onmessage(Begin(FALSE), f))} :
         Fits(S) /\ Commit(S)

\* the platform answers an outstanding component directive
ComponentResponse ==
  /\ socket = "open"
  /\ \E c \in calls : \E f \in Responses(c, ComponentCodes) :
       \E S \in {Drain(onmessage(Begin(FALSE), f))} :
         Fits(S) /\ Commit(S)

\* the platform answers an outstanding request that targets no component,
\* with any result code or none, and reports no application state change
DeliverAnyCode ==
  /\ socket = "open"
  /\ \E c \in calls, code \in MessageCodes \cup {None} :
       /\ c.cid = 0
       /\ LET f == Response(c, state, None, code)
          IN \E S \in {Drain(onmessage(Begin(FALSE), f))} :
               Fits(S) /\ Commit(S)

Event(st, cid, cs, code) ==
  [rid |-> 0, dir |-> None, appState |-> st, cid |-> cid, cstate |-> cs,
   code |-> code]

\* the platform-initiated frames (no directive, no request identifier): an
\* application state change, or a component event in the unchanged state
StateEvents(states) == {Event(st, 0, None, "OK") : st \in states}

ComponentEvents(codes) ==
  {Event(state, cid, cs, code) :
     cid \in Comps, cs \in {"READY", "UNAVAILABLE"}, code \in codes}

Unsolicited ==
  /\ socket = "open"
  /\ \E f \in StateEvents(ReportedStates) \cup ComponentEvents(SessionCodes) :
       \E S \in {Drain(onmessage(Begin(FALSE), f))} :
         Fits(S) /\ Commit(S)

\* the platform reports a component event
ComponentEvent ==
  /\ socket = "open"
  /\ \E f \in ComponentEvents(ComponentCodes) :
       \E S \in {Drain(onmessage(Begin(FALSE), f))} :
         Fits(S) /\ Commit(S)

\* the platform activates or deactivates the application
Activation ==
  /\ socket = "open"
  /\ \E f \in StateEvents({"AVAILABLE", "ACTIVE"}) :
       \E S \in {Drain(onmessage(Begin(FALSE), f))} :
         Fits(S) /\ Commit(S)

\* the socket closes
Close ==
  /\ socket \in {"open", "closing"}
  /\ \E throws \in BOOLEAN :
       \E S \in {Drain(emitClose([Begin(throws) EXCEPT !.socket = "closed"]))} :
         Fits(S) /\ Commit(S)

\* a watchdog timer fires: this.query().catch(Object).finally(poll)
PollTimer ==
  \E c \in Comps, throws \in Throws :
    /\ polls[c].timers > 0
    /\ \E S \in {Drain(query([Begin(throws) EXCEPT
                               !.poller[c] = "query",
                               !.polls[c].timers = @ - 1],
                            c, "poll", 0))} :
         Fits(S) /\ Commit(S)

\* the codes of the frames in the runs of the watchdog poller
PollCodes == {"OK", "MEDIAPRESENT", "HARDWAREERROR"}

\* the platform reports a component event, media present included
PollEvent ==
  /\ socket = "open"
  /\ \E f \in ComponentEvents(PollCodes) :
       \E S \in {Drain(onmessage(Begin(FALSE), f))} :
         Fits(S) /\ Commit(S)

\* the platform answers an outstanding query, media present included
PollResponse ==
  /\ socket = "open"
  /\ \E c \in calls : \E f \in Responses(c, PollCodes) :
       \E S \in {Drain(onmessage(Begin(FALSE), f))} :
         Fits(S) /\ Commit(S)

\* the platform answers an outstanding component directive; the frame carries
\* the application state the platform is in when it answers, which the
\* session may not have seen yet
ResponseInState ==
  /\ socket = "open"
  /\ \E c \in calls, st \in {"AVAILABLE", "ACTIVE"}, cs \in {"READY"} :
       LET f == Response(c, st, cs, "OK")
       IN \E S \in {Drain(onmessage(Begin(FALSE), f))} :
            Fits(S) /\ Commit(S)

\* the values of the ping and ackCode members in the frames received
Markers == {"undefined", "0", "1"}

\* the texts the socket can deliver: one that is no JSON, and the objects
\* with or without ping, ackCode and the meta of an answer to a request
RawFrames ==
  {[NoRaw EXCEPT !.json = FALSE]} \cup
  {[json |-> TRUE, ping |-> p, ackCode |-> a, body |-> b] :
     p \in Markers, a \in Markers,
     b \in {NoFrame} \cup {Response(c, state, None, "OK") :
                             c \in {k \in calls : k.cid = 0}}}

\* the socket delivers a text
WireFrame ==
  /\ socket = "open"
  /\ \E raw \in RawFrames, fatal \in BOOLEAN :
       \E S \in {Drain(socketOnMessage(Begin(FALSE), raw, fatal))} :
         Fits(S) /\ Commit(S)

\* socket.onopen: this._socket = socket
WireOpen ==
  /\ socket = "none"
  /\ Commit(emit([Begin(FALSE) EXCEPT !.socket = "open", !.wire.op = "open"],
                 "open"))

\* the application registers a listener of "error"
AppOnError ==
  /\ ~wire.terminated
  /\ ~wire.errorListener
  /\ Commit([Begin(FALSE) EXCEPT !.wire.errorListener = TRUE,
                                 !.wire.op = "on"])

\* the application calls sendAndGetResponse
WireSend ==
  /\ ~wire.terminated
  /\ \E throws \in Throws :
       \E S \in {Drain(sendAndGetResponse(
                        [Begin(throws) EXCEPT !.wire.op = "send"],
                        "PlatformEnvironment", 0, "raw", "plain", None, 0))} :
         Fits(S) /\ Commit(S)

\* api.getComponents is called: by _initialize when the socket has opened,
\* or by the application
GetComponents ==
  \E throws \in Throws :
    \E S \in {Drain(sendAndGetResponse(Begin(throws), "PlatformComponents", 0,
                                      "components", "plain", None, 0))} :
      Fits(S) /\ Commit(S)

\* the platform answers a getComponents call with a component list, or
\* refuses it
ComponentsResponse ==
  /\ socket = "open"
  /\ \E c \in calls, code \in {"OK", "HARDWAREERROR"},
        lst \in SUBSET Comps :
       /\ c.k = "components"
       /\ LET f == Response(c, state, None, code)
          IN \E S \in {Drain(onmessage([Begin(FALSE) EXCEPT !.componentList = lst],
                                   f))} :
               Fits(S) /\ Commit(S)

\* the base URL is normalised: by the constructor of a Connection, and again
\* when a Connection is made from the base URL of another
CleanBaseURL ==
  /\ url.cleaned < 2
  /\ url' = [url EXCEPT !.baseURL = cleanBaseURL(@), !.cleaned = @ + 1]
  /\ UNCHANGED <<state, previous, pendingStateChange, online, componentState, status,
                 enabled, pendingCalls, required, poller, polls, calls,
                 handlers, listeners, socket, sent, sreq, policyLog, settled,
                 done, inbound, guarded, emitted, wire, discovery, watch,
                 conn, prn>>

\* the application calls requestAvailableState while no earlier call of it is
\* suspended
AppRequestAvailableAlone ==
  /\ \A k \in calls : k.by \notin {"seq", "availInit"}
  /\ \E throws \in Throws :
       \E S \in {Drain(requestAvailableState(Begin(throws), "app"))} :
         Fits(S) /\ Commit(S)

\* the application calls pollUntilReady(requireOK) on a component
AppPollUntilReady ==
  \E c \in Comps, requireOK \in BOOLEAN :
    Commit(pollUntilReady(Begin(FALSE), c, requireOK))

AppSendAndGetResponse ==
  \E throws \in Throws :
    \E S \in {Drain(sendAndGetResponse(Begin(throws), "PlatformEnvironment", 0,
                                "raw", "plain", None, 0))} :
      Fits(S) /\ Commit(S)

AppEnable ==
  \E c \in Comps, throws \in Throws :
    \E S \in {Drain(enable(Begin(throws), c))} :
      Fits(S) /\ Commit(S)

AppDisable ==
  \E c \in Comps, throws \in Throws :
    \E S \in {Drain(disable(Begin(throws), c, "plain"))} :
      Fits(S) /\ Commit(S)

\* the application prints; one printRaw at a time
AppPrintRawAlone ==
  /\ \A k \in calls : k.by # "printRaw"
  /\ \E c \in Comps, throws \in Throws :
       \E S \in {Drain(printRaw(Begin(throws), c))} :
         Fits(S) /\ Commit(S)

AppCancel ==
  \E c \in Comps, throws \in Throws :
    \E S \in {Drain(cancel(Begin(throws), c))} :
      Fits(S) /\ Commit(S)

AppQuery ==
  \E c \in Comps, throws \in Throws :
    \E S \in {Drain(query(Begin(throws), c, "plain", 0))} :
      Fits(S) /\ Commit(S)

AppSetup ==
  \E c \in Comps, throws \in Throws :
    \E S \in {Drain(setup(Begin(throws), c))} :
      Fits(S) /\ Commit(S)

AppSend ==
  \E c \in Comps, throws \in Throws :
    \E S \in {Drain(send(Begin(throws), c))} :
      Fits(S) /\ Commit(S)

\* the operator marks a component as required or not
SetRequired ==
  \E c \in Comps, b \in BOOLEAN :
    /\ required[c] # b
    /\ Commit([Begin(FALSE) EXCEPT !.required[c] = b])

\* the application marks its required components before it goes online
Configure ==
  \E c \in Comps, b \in BOOLEAN :
    /\ ~online
    /\ required[c] # b
    /\ Commit([Begin(FALSE) EXCEPT !.required[c] = b])

\* set applicationOnline(online)
SetOnline ==
  \E b \in BOOLEAN, throws \in Throws :
    \E S \in {Drain(checkRequiredComponentsAndSyncState(
               [Begin(throws) EXCEPT !.online = b], "setter"))} :
      Fits(S) /\ Commit(S)

AppRequestAvailable ==
  \E throws \in Throws :
    \E S \in {Drain(requestAvailableState(Begin(throws), "app"))} :
      Fits(S) /\ Commit(S)

AppRequestUnavailable ==
  \E throws \in Throws :
    \E S \in {Drain(requestUnavailableState(Begin(throws), "app"))} :
      Fits(S) /\ Commit(S)

AppRequestActive ==
  \E throws \in Throws :
    \E S \in {Drain(requestActiveState(Begin(throws)))} :
      Fits(S) /\ Commit(S)

AppRequestReload ==
  \E throws \in Throws :
    \E S \in {Drain(requestReload(Begin(throws)))} :
      Fits(S) /\ Commit(S)

AppRequestStopped ==
  \E throws \in Throws :
    \E S \in {Drain(requestStoppedState(Begin(throws)))} :
      Fits(S) /\ Commit(S)

Next ==
  \/ DeliverResponse
  \/ Unsolicited
  \/ Close
  \/ PollTimer
  \/ SetRequired
  \/ SetOnline
  \/ AppRequestAvailable
  \/ AppRequestUnavailable
  \/ AppRequestActive
  \/ AppRequestStopped

Spec == Init /\ [][Next]_vars

\* the session controller on a socket that stays open, with a platform that
\* answers every request and fires every timer
NextLive ==
  \/ Answer
  \/ Unsolicited
  \/ PollTimer
  \/ Configure
  \/ SetOnline
  \/ AppRequestActive

InitLive == Constructed /\ watch = {"policyLog", "inbound"}

\* the steps of Answer that answer the request with identifier i
Answered(i) ==
  /\ socket = "open"
  /\ \E c \in calls :
       /\ c.id = i
       /\ \E f \in Granted(c, SessionCodes) : inbound' = f

\* the steps of PollTimer: an armed watchdog timer fires
TimerFired ==
  \E c \in Comps :
    /\ poller[c] = "timer"
    /\ poller' = [poller EXCEPT ![c] = "query"]

\* every outstanding request is answered in the end and every armed timer
\* fires; nothing else is promised
SpecLive ==
  /\ InitLive /\ [][NextLive]_vars
  /\ \A i \in Ids : WF_inbound(Answered(i))
  /\ WF_poller(TimerFired)

\* the guarded state requests, called by the application in every
\* application state the platform reports
NextReq ==
  \/ Unsolicited
  \/ DeliverResponse
  \/ Close
  \/ AppRequestAvailable
  \/ AppRequestUnavailable
  \/ AppRequestActive

InitReq == Constructed /\ watch = {"guarded", "inbound", "emitted"}

SpecReq == InitReq /\ [][NextReq]_vars

NextConn ==
  \/ AppSendAndGetResponse
  \/ DeliverAnyCode
  \/ Close

SpecConn == InitConn /\ [][NextConn]_vars

NextComp ==
  \/ ComponentResponse
  \/ ComponentEvent
  \/ Activation
  \/ Close
  \/ AppEnable
  \/ AppDisable
  \/ AppCancel
  \/ AppQuery
  \/ AppSetup
  \/ AppSend

SpecComp == InitComp /\ [][NextComp]_vars

\* the watchdog poller: component events, the answers to the queries, the
\* timer, and the calls of the application
InitPoll ==
  /\ \E dispensers \in SUBSET {1} : ConstructedWith(dispensers)
  /\ watch = {"inbound"}

NextPoll ==
  \/ PollEvent
  \/ PollResponse
  \/ Close
  \/ PollTimer
  \/ SetRequired
  \/ AppPollUntilReady
  \/ AppQuery

SpecPoll == InitPoll /\ [][NextPoll]_vars

\* activation and deactivation while component directives are in flight
InitDeact == Constructed /\ watch = {"inbound", "done"}

NextDeact ==
  \/ ResponseInState
  \/ Unsolicited
  \/ Close
  \/ AppEnable
  \/ AppDisable
  \/ AppQuery

SpecDeact == InitDeact /\ [][NextDeact]_vars

\* requestAvailableState with two components that the application enables,
\* while the platform changes the application state
InitAvail ==
  /\ Session({1, 2}, {}, "open", Discovered({1, 2}), <<>>)
  /\ watch = {"sent", "settled"}

NextAvail ==
  \/ Activation
  \/ DeliverResponse
  \/ Close
  \/ AppEnable
  \/ AppRequestAvailableAlone

SpecAvail == InitAvail /\ [][NextAvail]_vars

\* the state requests that have no guard on a pending state change of their
\* own, next to one that can be pending
InitReload ==
  /\ Constructed
  /\ watch = {"sreq", "settled", "sent", "guarded", "previous", "wire",
              "inbound"}

NextReload ==
  \/ Unsolicited
  \/ DeliverResponse
  \/ Close
  \/ AppRequestActive
  \/ AppRequestStopped
  \/ AppRequestReload

SpecReload == InitReload /\ [][NextReload]_vars

\* a printer that prints, next to other calls on the same component
InitPrint == Constructed /\ watch = {"done", "sent"}

NextPrint ==
  \/ ComponentResponse
  \/ Close
  \/ AppEnable
  \/ AppPrintRawAlone

SpecPrint == InitPrint /\ [][NextPrint]_vars

\* a Connection from its construction on: the socket opens, delivers texts
\* and closes, the application sends requests and listens for errors
InitWire ==
  /\ Session({1}, {}, "none", Discovered({1}), <<>>)
  /\ watch = {"wire", "settled", "sent"}

NextWire ==
  \/ WireOpen
  \/ WireFrame
  \/ WireSend
  \/ AppOnError
  \/ Close

SpecWire == InitWire /\ [][NextWire]_vars

\* component discovery, from the construction of the controller on
InitDisc ==
  /\ Session({1}, {}, "open", Undiscovered, <<>>)
  /\ watch = {"done", "inbound"}

NextDisc ==
  \/ GetComponents
  \/ ComponentsResponse
  \/ Activation
  \/ Close

SpecDisc == InitDisc /\ [][NextDisc]_vars

\* the normalisation of every base URL up to the length MaxURL
InitURL ==
  /\ \E u \in URLs : Session({1}, {}, "none", Undiscovered, u)
  /\ watch = {}

NextURL == CleanBaseURL

SpecURL == InitURL /\ [][NextURL]_vars


\* ---------------------------------------------------------------------
\* Connection.connect, the socket open attempts and the token refresh
\* ---------------------------------------------------------------------

ExpiresIn == {0, 1, 3600}
CloseCodes == {NormalClosure, 1006}

\* clearTimeout(this._refresher): a scheduled timer is cancelled, the
\* identifier stays in the field
clearTimeout(c) ==
  IF c.refresher = "armed"
    THEN [c EXCEPT !.refresher = "dead", !.timers = @ - 1]
    ELSE c

\* if (this._refresher) { clearTimeout(this._refresher); this._refresher = null }
clearRefresher(c) ==
  IF c.refresher # "null"
    THEN [clearTimeout(c) EXCEPT !.refresher = "null"]
    ELSE c

\* [Symbol.dispose]: clears the timer and keeps the field
dispose(c) ==
  IF c.refresher # "null" THEN clearTimeout(c) ELSE c

\* connect returns or throws: the scope of "using connection" ends, the
\* connection is disposed of, and the promise of connect settles
connectReturns(c, error) ==
  [dispose(c) EXCEPT !.pc = IF error = None THEN "resolved" ELSE "rejected",
                     !.error = error]

\* _authenticateAndQueueTokenRefresh up to its await of authorize
authenticate(c) ==
  clearRefresher(c)

\* _authenticateAndQueueTokenRefresh after authorize returned
authorized(c, expires_in) ==
  LET c1 == [c EXCEPT !.access_token = @ + 1, !.expires_in = expires_in]
      expires == IF expires_in > 0 THEN expires_in ELSE 0
  IN IF expires > 0
       THEN [c1 EXCEPT !.refresher = "armed", !.timers = @ + 1]
       ELSE c1

\* the executor of the open attempt: a new WebSocket unless one is open
createSocket(c) ==
  IF c.ws = "open"
    THEN connectReturns(c, None)
    ELSE [c EXCEPT !.sockets = @ + 1, !.ws = "connecting", !.pc = "attempt"]

\* retry calls the open attempt (first call, or after a backoff wait)
retry(c) ==
  createSocket([c EXCEPT !.attempts = @ + 1])

\* retry after the open attempt rejected: the final error at the attempt
\* ceiling, a backoff wait otherwise
retryFailed(c) ==
  IF c.attempts >= MaxAttempts
    THEN connectReturns(c, "RetryError")
    ELSE [c EXCEPT !.pc = "backoff", !.waits = @ + 1]

\* socket.onopen without resolve(true)
onopenSilent(c) ==
  [c EXCEPT !.ws = "open", !.retrying = FALSE]

\* socket.onopen
onopen(c) ==
  connectReturns([c EXCEPT !.ws = "open", !.retrying = FALSE], None)

\* socket.onclose without the return on the normal close code
oncloseAnyCode(c, code) ==
  LET c1 == [c EXCEPT !.ws = "closed", !.code = code]
  IN IF c1.retrying THEN retryFailed(c1) ELSE c1

\* socket.onclose
onclose(c, code) ==
  LET c1 == [c EXCEPT !.ws = "closed", !.code = code]
  IN IF code = NormalClosure THEN c1
     ELSE IF c1.retrying THEN retryFailed(c1)
     ELSE c1

\* Connection.close
close(c) ==
  LET c1 == [clearRefresher(c) EXCEPT !.closed = TRUE]
  IN IF c1.ws = "open" THEN [c1 EXCEPT !.ws = "closing"] ELSE c1

\* authorize that does not throw on status 401
tokenResponseAnyStatus(c, code, expires_in) ==
  retry([authorized([c EXCEPT !.status = code], expires_in)
           EXCEPT !.retrying = TRUE])

\* connect after the token endpoint answered: authorize throws on 401 and
\* connect rethrows; otherwise the token is stored, the refresh is scheduled
\* and the socket open attempts start
tokenResponse(c, code, expires_in) ==
  IF code = Unauthorized
    THEN connectReturns([c EXCEPT !.status = code], "AuthenticationError")
    ELSE retry([authorized([c EXCEPT !.status = code], expires_in)
                  EXCEPT !.retrying = TRUE])

\* the application calls Connection.connect
ConnectCall ==
  /\ conn.pc = "new"
  /\ conn' = [authenticate(conn) EXCEPT !.pc = "auth"]
  /\ UNCHANGED <<session, prn>>

\* the token endpoint answers the authorize of connect
TokenResponse ==
  /\ conn.pc = "auth"
  /\ \E code \in {Unauthorized, 200}, expires_in \in ExpiresIn :
       conn' = tokenResponse(conn, code, expires_in)
  /\ UNCHANGED <<session, prn>>

\* the refresh timer fires: its callback runs _authenticateAndQueueTokenRefresh
RefreshTimerFires ==
  /\ conn.timers > 0
  /\ conn.access_token < MaxTokens
  /\ conn' = [authenticate([conn EXCEPT !.timers = @ - 1, !.refresher = "dead"])
               EXCEPT !.refreshing = TRUE]
  /\ UNCHANGED <<session, prn>>

\* the token endpoint answers the authorize of a refresh
RefreshResponse ==
  /\ conn.refreshing
  /\ \/ conn' = [conn EXCEPT !.refreshing = FALSE, !.failed = TRUE]
     \/ \E expires_in \in ExpiresIn :
          conn' = [authorized(conn, expires_in) EXCEPT !.refreshing = FALSE]
  /\ UNCHANGED <<session, prn>>

\* the socket of the current attempt opens
SocketOpens ==
  /\ conn.ws = "connecting"
  /\ conn' = onopen(conn)
  /\ UNCHANGED <<session, prn>>

\* the socket closes, before or after it opened
SocketCloses ==
  /\ conn.ws \in {"connecting", "open", "closing"}
  /\ \E code \in CloseCodes : conn' = onclose(conn, code)
  /\ UNCHANGED <<session, prn>>

\* the backoff wait of retry elapses
BackoffElapsed ==
  /\ conn.pc = "backoff"
  /\ conn' = retry(conn)
  /\ UNCHANGED <<session, prn>>

\* the application calls close() on the connection connect returned
CloseCall ==
  /\ conn.pc = "resolved"
  /\ ~conn.closed
  /\ conn' = close(conn)
  /\ UNCHANGED <<session, prn>>

InitConnect == Constructed /\ watch = {}

NextConnect ==
  \/ ConnectCall
  \/ TokenResponse
  \/ RefreshTimerFires
  \/ RefreshResponse
  \/ SocketOpens
  \/ SocketCloses
  \/ BackoffElapsed
  \/ CloseCall

SpecConnect == InitConnect /\ [][NextConnect]_vars

\* the steps that end an open attempt: the socket that is connecting opens
\* or closes
AttemptEnds ==
  /\ conn.ws = "connecting"
  /\ SocketOpens \/ SocketCloses

\* Connection.connect where the token endpoint answers, every open attempt
\* ends in an open or a close, and the backoff timers of retry fire
SpecConnectLive ==
  /\ InitConnect /\ [][NextConnect]_vars
  /\ WF_vars(TokenResponse)
  /\ WF_vars(AttemptEnds)
  /\ WF_vars(BackoffElapsed)


\* ---------------------------------------------------------------------
\* Printer, Feeder and Dispenser: component frames and their events
\* ---------------------------------------------------------------------

\* the message codes the frames of each of the three carry
PartCodes(who) ==
  IF who = "printer" THEN {"OK", "TIMEOUT", "MEDIAPRESENT"}
  ELSE IF who = "feeder" THEN {"OK", "TIMEOUT"}
  ELSE {"OK", "MEDIAPRESENT"}
PartStates == {"READY", "UNAVAILABLE"}
PartDirectives == {None, "PeripheralsSend", "PeripheralsQuery"}

Bool(b) == IF b THEN "true" ELSE "false"

\* a call or an emit of the frame in progress, appended to the log
logged(p, ev, who, arg) ==
  [p EXCEPT !.log = Append(@, [ev |-> ev, who |-> who, arg |-> arg])]

\* updateCombinedReadyState that follows the printer's readiness only
updateCombinedReadyStateOwn(p) ==
  LET r == p.cs["printer"] = "READY"
  IN IF p.combinedReady # r
       THEN logged([p EXCEPT !.combinedReady = r],
                   "combinedReadyStateChange", "printer", Bool(r))
       ELSE p

\* Printer constructor: updateCombinedReadyState
updateCombinedReadyState(p) ==
  LET r == /\ p.cs["printer"] = "READY"
           /\ p.cs["feeder"] = "READY"
           /\ p.cs["dispenser"] = "READY"
  IN IF p.combinedReady # r
       THEN logged([p EXCEPT !.combinedReady = r],
                   "combinedReadyStateChange", "printer", Bool(r))
       ELSE p

\* Printer constructor: updateCombinedStatus
updateCombinedStatus(p) ==
  LET st == IF p.st["printer"] # "OK" THEN p.st["printer"]
            ELSE IF p.st["feeder"] # "OK" THEN p.st["feeder"]
            ELSE IF p.st["dispenser"] # "OK" THEN p.st["dispenser"]
            ELSE "OK"
  IN IF p.combinedStatus # st
       THEN logged([p EXCEPT !.combinedStatus = st],
                   "combinedStatusChange", "printer", st)
       ELSE p

\* Dispenser constructor: its listener of "statusChange"
dispenserStatusChange(p, st) ==
  IF st = "MEDIAPRESENT"
    THEN LET p1 == logged(p, "pollUntilReady", "dispenser", "2000")
         IN IF ~p1.mediaPresent
              THEN logged([p1 EXCEPT !.mediaPresent = TRUE],
                          "mediaPresent", "dispenser", "true")
              ELSE p1
    ELSE IF p.mediaPresent
           THEN logged([p EXCEPT !.mediaPresent = FALSE],
                       "mediaPresent", "dispenser", "false")
           ELSE p

\* emit("readyStateChange", ready) with the listener the printer registered
\* on itself, on its feeder and on its dispenser
emitReadyStateChange(p, who, r) ==
  updateCombinedReadyState(logged(p, "readyStateChange", who, Bool(r)))

\* emit("statusChange", status): the dispenser's own listener was registered
\* first, the printer's second
emitStatusChange(p, who, st) ==
  LET p1 == logged(p, "statusChange", who, st)
      p2 == IF who = "dispenser" THEN dispenserStatusChange(p1, st) ELSE p1
  IN updateCombinedStatus(p2)

\* Component.stateIsDifferent
partStateIsDifferent(p, msg) ==
  p.st[msg.who] # msg.code \/ p.cs[msg.who] # msg.cstate

\* Component.updateState that emits "statusChange" without comparing
partUpdateStateEager(p, msg) ==
  emitStatusChange([p EXCEPT !.frame.seen = msg.cstate,
                             !.st[msg.who] = msg.code],
                   msg.who, msg.code)

\* Component.updateState.  The call of pollUntilReady is logged; the poller
\* it starts unless one is active is the one of poll and pollUntilReady above.
partUpdateState(p, msg) ==
  LET who == msg.who
      p0 == [p EXCEPT !.frame.seen = msg.cstate]
      p1 == IF msg.cstate # p0.cs[who]
              THEN emitReadyStateChange(
                     [p0 EXCEPT !.cs[who] = IF msg.cstate = None
                                             THEN "UNAVAILABLE"
                                             ELSE msg.cstate,
                                !.en[who] = IF msg.cstate # "READY"
                                             THEN FALSE ELSE @],
                     who, msg.cstate = "READY")
            ELSE p0
      p2 == IF p1.cs[who] # "READY" /\ p1.required[who]
               /\ pollingInterval > 0
              THEN logged(p1, "pollUntilReady", who, "pollingInterval")
            ELSE p1
  IN IF p2.st[who] # msg.code
       THEN emitStatusChange([p2 EXCEPT !.st[who] = msg.code], who, msg.code)
       ELSE p2

\* Printer.updateState that queries neither child
printerUpdateStateUnqueried(p, msg) ==
  partUpdateState(p, IF /\ msg.dir = "PeripheralsSend"
                        /\ msg.code = "TIMEOUT"
                        /\ msg.cstate = "UNAVAILABLE"
                       THEN [msg EXCEPT !.cstate = "READY"]
                     ELSE msg)

\* Printer.updateState
printerUpdateState(p, msg) ==
  LET m == IF /\ msg.dir = "PeripheralsSend"
              /\ msg.code = "TIMEOUT"
              /\ msg.cstate = "UNAVAILABLE"
             THEN [msg EXCEPT !.cstate = "READY"]
           ELSE msg
      p1 == IF p.cs["printer"] # "READY" /\ m.cstate = "READY"
              THEN logged(logged(p, "query", "feeder", ""),
                          "query", "dispenser", "")
            ELSE IF m.code = "MEDIAPRESENT"
              THEN logged(logged(p, "mediaPresent", "dispenser", "true"),
                          "query", "dispenser", "")
            ELSE p
  IN partUpdateState(p1, m)

\* _handleWebSocketMessage from the component lookup to the policy call, for
\* a frame that names the printer, its feeder or its dispenser.  isOnline:
\* this._online
componentFrame(p, msg, isOnline) ==
  LET p0 == [p EXCEPT !.log = <<>>, !.frame = msg]
  IN IF partStateIsDifferent(p0, msg)
       THEN LET p1 == IF msg.who = "printer"
                        THEN printerUpdateState(p0, msg)
                      ELSE partUpdateState(p0, msg)
                p2 == logged(p1, "componentStateChange", msg.who, "")
            IN IF isOnline /\ (msg.dir = None \/ msg.dir = "PeripheralsQuery")
                 THEN logged(p2, "checkRequiredComponentsAndSyncState",
                             msg.who, "")
               ELSE p2
     ELSE p0

\* the platform sends a frame that names one of the three components
PartFrame ==
  /\ \E who \in Parts, dir \in PartDirectives,
        cstate \in PartStates,
        isOnline \in BOOLEAN :
       \E code \in PartCodes(who) :
         prn' = componentFrame(prn, [who |-> who, dir |-> dir, code |-> code,
                                     cstate |-> cstate, seen |-> None],
                               isOnline)
  /\ UNCHANGED <<session, conn>>

\* the answer to the printer's enable() arrived: enabled = true
PrinterEnabled ==
  /\ ~prn.en["printer"]
  /\ prn' = [prn EXCEPT !.en["printer"] = TRUE, !.log = <<>>,
                         !.frame = NoEvent]
  /\ UNCHANGED <<session, conn>>

InitPrinter == Constructed /\ watch = {}

NextPrinter == PartFrame \/ PrinterEnabled

SpecPrinter == InitPrinter /\ [][NextPrinter]_vars

\* ------------------------------------------------------------------------
\* Properties
\* ------------------------------------------------------------------------
StateRequests == {c \in calls : c.k = "staterequest"}

Requested(st) == \E c \in StateRequests : c.target = st

NotReadyRequired == {c \in Comps : required[c] /\ componentState[c] # "READY"}

\* the entries of settled whose call was settled by an inbound frame
ByFrame == {i \in DOMAIN settled :
              settled[i].out.err \in {"none", "PlatformResponseError"}}

ByClose == {i \in DOMAIN settled : settled[i].out.err = "CloseEvent"}

Registered(id) == {l \in listeners : l.wait = id}

\* C1: at most one state-change request awaits its response; it is the one
\* pendingStateChange names; and an invocation of api.staterequest made while
\* pendingStateChange is set hands nothing to the connection.
C1_OneStateRequest ==
  /\ Cardinality(StateRequests) <= 1
  /\ \A c \in StateRequests : pendingStateChange = c.target
  /\ \A e \in sreq : e.pending => ~e.sent

\* a state request is in flight and a further invocation found it pending
C1_Witness ==
  /\ StateRequests # {}
  /\ \E e \in sreq : e.pending /\ ~e.sent

\* C2: once a component frame has made the sync policy run with a required
\* component not ready while the application is online in AVAILABLE or ACTIVE, an UNAVAILABLE
\* state request is eventually in flight, unless the situation ends first
\* (offline, another application state, the component ready again).
C2_Due ==
  /\ online
  /\ state \in {"AVAILABLE", "ACTIVE"}
  /\ \E e \in policyLog : e.from = "component" /\ ~e.allReady

C2_UnavailableRequested ==
  C2_Due ~> \/ Requested("UNAVAILABLE")
            \/ ~online
            \/ state \notin {"AVAILABLE", "ACTIVE"}
            \/ NotReadyRequired = {}

C4_Due ==
  /\ online
  /\ state = "UNAVAILABLE"
  /\ NotReadyRequired = {}

C4_AvailableRequested == C4_Due ~> (Requested("AVAILABLE") \/ ~C4_Due)

\* C5: an inbound frame settles at most one call, the one whose request
\* identifier it carries; every other call stays pending.
C5_Correlated ==
  \A i \in ByFrame :
    /\ settled[i].id = inbound.rid
    /\ settled[i].out.rid = settled[i].id
    /\ Len(settled) = 1

\* two calls were in flight and the answer to the later one came first
C5_Witness ==
  /\ ByFrame = {1}
  /\ settled[1].id = 2
  /\ \E c \in calls : c.id = 1

\* C6: a call settled by a frame or by the close event is no longer pending
\* and neither of its listeners remains; a pending call has both listeners;
\* the close event settles every call that was pending.
C6_SettledOnce ==
  /\ \A i \in ByFrame \cup ByClose :
       /\ Registered(settled[i].id) = {}
       /\ ~ \E c \in calls : c.id = settled[i].id
       /\ \A j \in DOMAIN settled : settled[j].id = settled[i].id => j = i
  /\ \A c \in calls : Cardinality(Registered(c.id)) = 2
  /\ ByClose # {} => calls = {}

\* the close event rejected two pending calls
C6_Witness ==
  /\ Cardinality(ByClose) = 2
  /\ listeners = {}

\* C7: a response with a critical result code rejects the call with a
\* PlatformResponseError that carries the response; a response with any other
\* result code resolves it with the response.
C7_CriticalRejects ==
  \A i \in ByFrame :
    /\ settled[i].out.messageCode = inbound.code
    /\ settled[i].out.rid = inbound.rid
    /\ inbound.code \in criticalErrors
         => settled[i].out.err = "PlatformResponseError"
    /\ inbound.code \in MessageCodes \ criticalErrors
         => settled[i].out.how = "resolved"

\* a response with a critical code rejected its call
C7_Witness ==
  /\ inbound.code = "HARDWAREERROR"
  /\ \E i \in ByFrame : settled[i].out.err = "PlatformResponseError"

ComponentActions == {"enable", "disable", "cancel", "query", "setup", "send"}

InFlight(c) == {x \in calls : x.cid = c /\ x.k \in ComponentActions}

\* C8: pendingCalls of a component is the number of its actions in flight
\* (incremented at dispatch, restored at settlement) and is never negative.
C8_PendingCalls ==
  \A c \in Comps :
    /\ pendingCalls[c] = Cardinality(InFlight(c))
    /\ pendingCalls[c] >= 0

\* C9 as claimed: after disable() has settled, enabled is false.
C9_AlwaysDisabled ==
  \A i \in DOMAIN done : done[i].op = "disable" => ~enabled[done[i].cid]

\* C9: after disable() has settled, enabled is false if the call succeeded or
\* failed with OUTOFSEQUENCE (disable then resolves); after any other failure
\* disable rejects and enabled is what it was.
C9_DisableOutcome ==
  \A i \in DOMAIN done :
    done[i].op = "disable" =>
      /\ done[i].how = "resolved"
           <=> (done[i].messageCode = "OUTOFSEQUENCE"
                \/ done[i].messageCode \in MessageCodes \ criticalErrors)
      /\ done[i].how = "resolved" => ~enabled[done[i].cid]
      /\ done[i].how = "rejected" => enabled[done[i].cid] = done[i].was

\* disable() failed with another code on an enabled component
C9_Witness ==
  \E i \in DOMAIN done :
    /\ done[i].op = "disable"
    /\ done[i].how = "rejected"
    /\ done[i].messageCode = "HARDWAREERROR"
    /\ enabled[done[i].cid]

\* C10: an enabled component is ready.
C10_EnabledReady == \A c \in Comps : enabled[c] => componentState[c] = "READY"

\* the states a guarded request is allowed from
Allowed(op) ==
  CASE op = "requestAvailableState" -> {"INITIALIZE", "UNAVAILABLE", "ACTIVE"}
    [] op = "requestUnavailableState" -> {"INITIALIZE", "AVAILABLE", "ACTIVE"}
    [] op = "requestActiveState" -> {"AVAILABLE", "ACTIVE"}

\* C11: a guarded state request called from a state it is not allowed from
\* returns a promise resolved with undefined and writes no frame.
C11_GuardedNoop ==
  \A g \in guarded :
    g.from \notin Allowed(g.op) =>
      /\ g.result = "undefined"
      /\ g.frames = 0

\* requestActiveState was called in UNAVAILABLE and returned at its guard
C11_Witness ==
  /\ state = "UNAVAILABLE"
  /\ \E g \in guarded :
       g.op = "requestActiveState" /\ g.from = "UNAVAILABLE"
         /\ g.result = "undefined"

\* C12: the handling of a frame is complete, its raw "message" event
\* included, before any part of the handling of the next frame takes effect:
\* a macrotask that handles a delivered frame emits no "message" event of a
\* frame delivered earlier.
C12_DeliveryOrder ==
  inbound # NoFrame => \A i \in DOMAIN emitted : emitted[i].own

\* C13: when the token endpoint answers connect with 401, connect has
\* rejected with an AuthenticationError, and no socket was created, no open
\* attempt was made and no backoff wait took place.
C13_AuthRejects ==
  conn.status = Unauthorized =>
    /\ conn.pc = "rejected"
    /\ conn.error = "AuthenticationError"
    /\ conn.sockets = 0
    /\ conn.attempts = 0
    /\ conn.waits = 0

C13_Witness ==
  conn.status = Unauthorized /\ conn.pc = "rejected" /\ conn.sockets = 0


\* C14: a close with a non-normal code before the socket opened is retried
\* after a backoff wait: connect has resolved whenever a socket has opened,
\* at most maxAttempts sockets are ever created, a backoff wait starts only
\* below the attempt ceiling, connect rejects with the final error exactly at
\* the ceiling, and a non-normal close never leaves connect waiting.
C14_BoundedRetry ==
  /\ conn.sockets <= MaxAttempts
  /\ conn.waits < MaxAttempts
  /\ conn.ws \in {"open", "closing"} => conn.pc = "resolved"
  /\ conn.pc = "backoff" =>
       conn.code # NormalClosure /\ conn.sockets < MaxAttempts
  /\ conn.error = "RetryError" =>
       /\ conn.pc = "rejected"
       /\ conn.sockets = MaxAttempts
       /\ conn.code # NormalClosure
  /\ (conn.pc = "attempt" /\ conn.ws = "closed") => conn.code = NormalClosure

C14_Witness ==
  /\ conn.error = "RetryError"
  /\ conn.sockets = MaxAttempts
  /\ conn.waits = MaxAttempts - 1

\* C15: once a socket closed with the normal close code no further socket is
\* created, whether the close came during an open attempt or after the socket
\* had opened; a close with any other code during an open attempt starts a
\* backoff wait or, at the attempt ceiling, rejects connect.
C15_NormalCloseTerminal ==
  [][/\ conn.code = NormalClosure => conn'.sockets = conn.sockets
     /\ (conn.ws = "connecting" /\ conn'.ws = "closed"
           /\ conn'.code # NormalClosure) =>
          conn'.pc \in {"backoff", "rejected"}]_vars

C15_Witness ==
  /\ conn.code = NormalClosure
  /\ conn.pc = "attempt"
  /\ conn.ws = "closed"
  /\ conn.waits > 0

\* C16: after connect resolved with a token whose expires_in exceeds 1, and
\* as long as close() was not called and no refresh failed, a refresh timer
\* is scheduled or a refresh awaits the token endpoint.
C16_RefreshScheduled ==
  (/\ conn.pc = "resolved"
   /\ conn.expires_in > 1
   /\ ~conn.closed
   /\ ~conn.failed) =>
    (conn.timers > 0 \/ conn.refreshing)

\* C17: the connection never holds more than one scheduled refresh timer,
\* and holds none once close() was called, whenever the call came.
C17_NoRefreshAfterClose ==
  /\ conn.timers <= 1
  /\ conn.closed => conn.timers = 0

\* the entries of the last frame's log that record event ev of component who
Emitted(p, ev, who) ==
  {i \in DOMAIN p.log : p.log[i].ev = ev /\ p.log[i].who = who}

AllReady(p) == \A c \in Parts : p.cs[c] = "READY"

\* C18: after every frame the printer's combinedReady is the conjunction of
\* the readiness of printer, feeder and dispenser; the frame emits
\* 'combinedReadyStateChange' exactly once, with the new value, when the
\* conjunction changed, and not at all when it did not.
C18_CombinedReady ==
  [][/\ prn'.combinedReady = AllReady(prn')
     /\ prn'.frame # NoEvent =>
          LET changes == Emitted(prn', "combinedReadyStateChange", "printer")
          IN /\ Cardinality(changes) =
                  IF AllReady(prn') # AllReady(prn) THEN 1 ELSE 0
             /\ \A i \in changes :
                  prn'.log[i].arg = Bool(AllReady(prn'))]_vars

C18_Witness ==
  /\ prn.frame.who = "feeder"
  /\ prn.combinedReady
  /\ Emitted(prn, "readyStateChange", "feeder") # {}
  /\ Emitted(prn, "combinedReadyStateChange", "printer") # {}

\* the frame C19 is about: the answer to a "send" directive of the printer
\* with messageCode TIMEOUT and componentState UNAVAILABLE
TimeoutOnSend(f) ==
  /\ f.who = "printer"
  /\ f.dir = "PeripheralsSend"
  /\ f.code = "TIMEOUT"
  /\ f.cstate = "UNAVAILABLE"

\* C19: after the answer to a "send" directive with TIMEOUT and UNAVAILABLE
\* the printer is READY; its enabled flag is what it was; the frame emitted no
\* readyStateChange(false), and no readyStateChange at all for a printer that
\* was ready; and the frame did not call the sync policy.
C19_TimeoutKeepsReady ==
  [][TimeoutOnSend(prn'.frame) =>
       /\ prn'.cs["printer"] = "READY"
       /\ prn'.en["printer"] = prn.en["printer"]
       /\ \A i \in Emitted(prn', "readyStateChange", "printer") :
            prn'.log[i].arg = "true" /\ prn.cs["printer"] # "READY"
       /\ \A i \in DOMAIN prn'.log :
            prn'.log[i].ev # "checkRequiredComponentsAndSyncState"]_vars

\* C20: Component.updateState emits 'readyStateChange' exactly once when the
\* componentState it is given differs from the cached one, with argument true
\* iff that state is READY, and not otherwise; it emits 'statusChange' exactly
\* once, with the new code, when the messageCode differs from the cached
\* status, and not otherwise; no other component emits either event.
C20_UpdateStateEvents ==
  [][prn'.frame # NoEvent =>
       LET f == prn'.frame
           given == IF f.seen # None THEN f.seen ELSE f.cstate
           readies == Emitted(prn', "readyStateChange", f.who)
           statuses == Emitted(prn', "statusChange", f.who)
       IN /\ Cardinality(readies) =
               IF given # prn.cs[f.who] THEN 1 ELSE 0
          /\ \A i \in readies : prn'.log[i].arg = Bool(given = "READY")
          /\ Cardinality(statuses) =
               IF f.code # prn.st[f.who] THEN 1 ELSE 0
          /\ \A i \in statuses : prn'.log[i].arg = f.code
          /\ \A c \in Parts \ {f.who} :
               /\ Emitted(prn', "readyStateChange", c) = {}
               /\ Emitted(prn', "statusChange", c) = {}]_vars

C20_Witness ==
  /\ prn.frame.who = "feeder"
  /\ prn.frame.cstate = "READY"
  /\ prn.frame.code = "OK"
  /\ Cardinality(Emitted(prn, "readyStateChange", "feeder")) = 1
  /\ prn.log[1].arg = "true"
  /\ Emitted(prn, "statusChange", "feeder") = {}

PollQueries(c) == {k \in calls : k.cid = c /\ k.by = "poll"}

\* the watchdog poller of component c is active: a poll timer is scheduled
\* or a poll query is in flight
Polling(c) == polls[c].timers > 0 \/ PollQueries(c) # {}

\* C22: a component never has more than one scheduled poll timer or poll
\* query in flight, taken together, and has none while _poller is unset.
C22_OnePoller ==
  \A c \in Comps :
    /\ polls[c].timers + Cardinality(PollQueries(c)) <= 1
    /\ poller[c] = "none" => ~Polling(c)

\* a media-present event reached a dispenser whose poll query is in flight
C22_Witness ==
  \E c \in Comps :
    /\ polls[c].dispenser
    /\ inbound.cid = c /\ inbound.rid = 0 /\ inbound.code = "MEDIAPRESENT"
    /\ status[c] = "MEDIAPRESENT"
    /\ PollQueries(c) # {}
    /\ polls[c].timers = 0

\* C23: when the frame just handled was passed to updateState of a component
\* (it differed from the cached status or state), and the component is now
\* required and not ready with a polling interval above 0, the component's
\* watchdog poller is active.
C23_WatchdogStarted ==
  [][\A c \in Comps :
       (/\ inbound'.cid = c
        /\ (status[c] # inbound'.code \/ componentState[c] # inbound'.cstate)
        /\ required'[c]
        /\ componentState'[c] # "READY"
        /\ pollingInterval > 0) =>
         (polls'[c].timers > 0
          \/ \E k \in calls' : k.cid = c /\ k.by = "poll")]_vars

\* an event made a required component not ready and no poll query is in
\* flight: the timer is the one updateState scheduled or found
C23_Witness ==
  \E c \in Comps :
    /\ inbound.cid = c /\ inbound.rid = 0 /\ inbound.cstate = "UNAVAILABLE"
    /\ required[c]
    /\ componentState[c] = "UNAVAILABLE"
    /\ poller[c] = "timer"
    /\ polls[c].timers = 1
    /\ ~polls[c].requireOK

\* the condition the poller of c waits for holds
Satisfied(c) ==
  componentState[c] = "READY" /\ (~polls[c].requireOK \/ status[c] = "OK")

\* C24: a poll query is issued only by the firing of the poll timer, one per
\* firing; when a poll query has settled, with whatever result or error, the
\* poller has cleared its handle and scheduled nothing if the component is
\* ready (with status OK when OK is required), and has scheduled the next
\* timer otherwise; a cleared poller issues no query.
C24_PollUntilReady ==
  [][\A c \in Comps :
       /\ (PollQueries(c)' \ PollQueries(c) # {}) =>
            /\ polls[c].timers = 1 /\ polls'[c].timers = 0
            /\ Cardinality(PollQueries(c)') = 1
       /\ (PollQueries(c) \ PollQueries(c)' # {}) =>
            IF Satisfied(c)'
              THEN poller'[c] = "none" /\ polls'[c].timers = 0
                   /\ PollQueries(c)' = {}
              ELSE poller'[c] = "timer" /\ polls'[c].timers = 1
       /\ (poller[c] = "none" /\ poller'[c] = "none") =>
            PollQueries(c)' = {}]_vars

\* the poller of a ready component goes on because OK is required and the
\* status is not OK
C24_Witness ==
  \E c \in Comps :
    /\ polls[c].requireOK
    /\ componentState[c] = "READY"
    /\ status[c] = "MEDIAPRESENT"
    /\ inbound.rid # 0 /\ inbound.cid = c
    /\ poller[c] = "timer"
    /\ polls[c].timers = 1
    /\ PollQueries(c) = {}

\* C25: a frame that moves the application state away from ACTIVE leaves
\* every component disabled once it has been processed: at the end of its own
\* macrotask when the handler was not suspended, and at the end of the
\* macrotask in which the suspended handler resumed otherwise; whichever
\* request the frame answers.
C25_DeactivatedDisables ==
  [][/\ (state = "ACTIVE" /\ state' # "ACTIVE" /\ handlers' = handlers)
          => \A c \in Comps : ~enabled'[c]
     /\ (\E hr \in handlers \ handlers' : hr.wasActive)
          => \A c \in Comps : ~enabled'[c]]_vars

\* the macrotask was the delivery of a text to socket.onmessage
Received == wire.op = "frame"

Untouched ==
  /\ socket' = socket
  /\ listeners' = listeners
  /\ calls' = calls
  /\ state' = state

\* C26: a heartbeat frame (an object with a ping member) makes the connection
\* write one pong and emit "ping" and nothing else; an acknowledgement frame
\* (an object with an ackCode member and no ping) makes it emit "ack" and
\* nothing else and write nothing.
C26_PingAck ==
  [][Received' =>
       /\ (wire'.raw.json /\ wire'.raw.ping # "undefined")
            => wire'.events = <<"pong", "ping">> /\ Untouched
       /\ (wire'.raw.json /\ wire'.raw.ping = "undefined"
             /\ wire'.raw.ackCode # "undefined")
            => wire'.events = <<"ack">> /\ Untouched]_vars

\* C27: a text that cannot be parsed makes the connection emit "error" and
\* nothing else: no exception leaves the handler, the socket stays open and
\* the pending waits stay pending.
C27_MalformedDropped ==
  [][(Received' /\ ~wire'.raw.json) =>
       /\ wire'.events = <<"error">>
       /\ ~wire'.uncaught
       /\ ~wire'.terminated
       /\ Untouched]_vars

\* C28: sendAndGetResponse on a connection without a socket rejects with the
\* not-connected error in the same turn, writes no frame and registers no
\* waiter.
C28_NotConnected ==
  [][(socket = "none" /\ wire'.op = "send") =>
       /\ Len(settled') = 1
       /\ settled'[1].out = Rejected("WebSocket is not connected")
       /\ sent' = <<>>
       /\ listeners' = listeners
       /\ calls' = calls]_vars

C28_Witness ==
  /\ socket = "none"
  /\ wire.op = "send"
  /\ Len(settled) = 1
  /\ settled[1].out.err = "WebSocket is not connected"
  /\ listeners = {}

\* C29: components are instantiated at most once: a getComponents call that
\* is answered after the first instantiation returns the list it was
\* answered with and leaves the registry and the named fields as the first
\* run made them.
C29_DiscoveryOnce ==
  [][/\ discovery'.runs <= 1
     /\ discovery.discovered =>
          /\ discovery'.discovered
          /\ discovery'.components = discovery.components
          /\ discovery'.named = discovery.named
     /\ \A i \in DOMAIN done' :
          (done'[i].op = "getComponents" /\ done'[i].how = "resolved") =>
            /\ discovery'.discovered
            /\ \A c \in DOMAIN discovery'.components :
                 discovery'.components[c] = 1 /\ discovery'.named[c] = 1]_vars

C29_Witness ==
  /\ discovery.discovered
  /\ discovery.runs = 1
  /\ DOMAIN discovery.components = {}
  /\ discovery.returned = Comps
  /\ \E i \in DOMAIN done :
       done[i].op = "getComponents" /\ done[i].how = "resolved"

\* C30: normalising a base URL that is already normalised changes nothing:
\* clean(clean(u)) = clean(u) for every URL u.
C30_CleanIdempotent ==
  url.cleaned = 2 => url.baseURL = cleanBaseURL(url.given)

\* C31: whenever a state request for AVAILABLE is written to the socket, the
\* application state is UNAVAILABLE or ACTIVE.
C31_AvailableFromAllowed ==
  \A i \in DOMAIN sent :
    sent[i].target = "AVAILABLE" => state \in {"UNAVAILABLE", "ACTIVE"}

\* the disable calls of the loop of requestAvailableState among the calls K
SeqCalls(K) == {c \in K : c.k = "disable" /\ c.by = "seq"}

\* C32: in ACTIVE, requestAvailableState disables the enabled components one
\* after another in list order: at most one of those disable calls is
\* outstanding, the next is written only in the step that settles the previous
\* one, and the state request for AVAILABLE is written only in the step that
\* settles the last of them, never together with one of them (a step that
\* writes it in ACTIVE without settling one finds no component enabled).
C32_SequentialDisable ==
  [][LET settledSeq == SeqCalls(calls) \ calls'
         newSeq == SeqCalls(calls') \ calls
         avail == \E i \in DOMAIN sent' : sent'[i].target = "AVAILABLE"
     IN /\ Cardinality(SeqCalls(calls')) <= 1
        /\ newSeq # {} => ~avail
        /\ \A n \in newSeq : \A c \in settledSeq :
             /\ IndexOf(n.cid) > IndexOf(c.cid)
             /\ \A j \in Comps :
                  IndexOf(c.cid) < IndexOf(j) /\ IndexOf(j) < IndexOf(n.cid)
                    => ~enabled[j]
        /\ avail /\ state' = "ACTIVE" /\ settledSeq = {} =>
             \A j \in Comps : ~enabled'[j]
        /\ avail =>
             \A c \in settledSeq : \A j \in Comps :
               IndexOf(j) > IndexOf(c.cid) => ~enabled[j]]_vars

\* both components were disabled in turn and the state request for AVAILABLE
\* is written in the step that settled the disable of the last one
C32_Witness ==
  /\ \E i \in DOMAIN sent : sent[i].target = "AVAILABLE"
  /\ \E i \in DOMAIN settled :
       settled[i].k = "disable" /\ settled[i].out.how = "resolved"
  /\ \A j \in Comps : ~enabled[j]
  /\ SeqCalls(calls) = {}
  /\ state = "ACTIVE"

\* C33: requestReload closes the socket only in a step in which its RELOAD
\* state request resolved.
C33_ReloadClosesOnSuccess ==
  [][socket = "open" /\ socket' = "closing" =>
       \E i \in DOMAIN settled' :
         /\ settled'[i].k = "staterequest"
         /\ settled'[i].out.how = "resolved"
         /\ \E c \in calls : c.id = settled'[i].id /\ c.by = "reload"]_vars

\* C34: every call of requestStoppedState on an open socket writes one frame,
\* a state request for STOPPED, whatever the application state and whether or
\* not another state request is outstanding.
C34_StoppedAlwaysSent ==
  \A g \in guarded :
    g.op = "requestStoppedState" /\ socket = "open" =>
      /\ g.frames = 1
      /\ \E i \in DOMAIN sent : sent[i].target = "STOPPED"

\* the log holds a call of query() on the part who
Queried(log, who) ==
  \E i \in DOMAIN log : log[i].ev = "query" /\ log[i].who = who

\* C36: a frame that moves the printer from not ready to READY, or carries the
\* status MEDIAPRESENT, makes the printer call query() on its feeder and on
\* its dispenser while the frame is handled.
C36_RequeryBoth ==
  [][/\ prn'.frame.who = "printer"
     /\ \/ prn.cs["printer"] # "READY" /\ prn'.cs["printer"] = "READY"
        \/ prn'.frame.code = "MEDIAPRESENT"
     => Queried(prn'.log, "feeder") /\ Queried(prn'.log, "dispenser")]_vars

\* C36 as the code has it: a frame that moves the printer from not ready to
\* READY makes the printer call query() on its feeder and on its dispenser;
\* any other frame that changes the printer's state or status and carries
\* MEDIAPRESENT makes it call query() on the dispenser only; a frame that
\* changes neither calls no query().
C36_RequeryAsCoded ==
  [][prn'.frame.who = "printer" =>
       LET nowReady == prn.cs["printer"] # "READY" /\ prn'.cs["printer"] = "READY"
           different == \/ prn.st["printer"] # prn'.frame.code
                        \/ prn.cs["printer"] # prn'.frame.cstate
           feeder == Queried(prn'.log, "feeder")
           dispenser == Queried(prn'.log, "dispenser")
       IN /\ nowReady => feeder /\ dispenser
          /\ ~nowReady /\ different /\ prn'.frame.code = "MEDIAPRESENT"
               => dispenser /\ ~feeder
          /\ ~different => ~feeder /\ ~dispenser]_vars

\* a frame carrying MEDIAPRESENT reached a printer that was READY: the
\* dispenser was queried, the feeder was not
C36_Witness ==
  /\ prn.frame.who = "printer"
  /\ prn.frame.code = "MEDIAPRESENT"
  /\ prn.frame.cstate = "READY"
  /\ prn.cs["printer"] = "READY"
  /\ Queried(prn.log, "dispenser")
  /\ ~Queried(prn.log, "feeder")

\* the calls printRaw has outstanding among K: its send, or its cancel
PrintCalls(K, k) == {c \in K : c.k = k /\ c.by = "printRaw"}

\* C37: when the platform refuses the send of printRaw, printRaw writes one
\* cancel for the printer; and whenever printRaw rejects, it rejects with the
\* error of its send, whether its cancel resolved or rejected.
C37_CancelThenOriginal ==
  [][/\ \A c \in PrintCalls(calls, "send") :
          /\ c \notin calls'
          /\ socket' = "open"
          /\ \E i \in DOMAIN done' :
               done'[i].op = "send" /\ done'[i].how = "rejected"
          => /\ Cardinality(PrintCalls(calls', "cancel")) = 1
             /\ Cardinality({i \in DOMAIN sent' :
                               sent'[i].dir = "PeripheralsCancel"}) = 1
     /\ \A c \in PrintCalls(calls, "cancel") :
          c \notin calls' =>
            \E i \in DOMAIN done' :
              /\ done'[i].op = "printRaw"
              /\ done'[i].how = "rejected"
              /\ done'[i].err = c.target]_vars

C40_NoWaitOnClosed == socket = "closed" => calls = {}

\* C39: once Connection.connect is called it settles in the end: it resolves
\* or it rejects, whatever the close codes of its open attempts.
C39_ConnectSettles ==
  conn.pc # "new" ~> conn.pc \in {"resolved", "rejected"}

\* the 'stateChange' events among the events evs
StateChanges(evs) == {i \in DOMAIN evs : evs[i] = "stateChange"}

\* C35: the current/previous pair changes only in a step that receives a frame
\* reporting a state other than the current one; such a step sets previous to
\* the old current state and current to the reported one and emits exactly
\* one 'stateChange'; every other step (a frame reporting the current state,
\* a state request, a close) leaves the pair alone and emits none.
C35_StatePair ==
  [][IF inbound' # NoFrame /\ inbound'.appState # state
       THEN /\ state' = inbound'.appState
            /\ previous' = state
            /\ Cardinality(StateChanges(wire'.events)) = 1
     ELSE /\ state' = state
          /\ previous' = previous
          /\ StateChanges(wire'.events) = {}]_vars

\* a frame changed the state while a state request was outstanding, and the
\* pair holds the old and the reported state
C35_Witness ==
  /\ inbound # NoFrame
  /\ state = inbound.appState
  /\ previous = "AVAILABLE"
  /\ state = "ACTIVE"
  /\ pendingStateChange # None
  /\ StateChanges(wire.events) # {}

TypeOK ==
  /\ state \in AppStates
  /\ previous \in AppStates
  /\ pendingStateChange \in AppStates \cup {None}
  /\ \A c \in Comps : pendingCalls[c] \in -1..MaxInFlight

====
